---- MODULE Spec2Model ----
(***************************************************************************)
(* A model of the gNMI-API core: the path codec (utils.create_gnmi_path),  *)
(* the typed value decoder (GNMIManager.get_value), the YANG tree          *)
(* flattener (GNMIManager._walk_yang_data) with the record assembler       *)
(* (GNMIManager.get) and the streaming consumer (GNMIManager.subscribe).   *)
(*                                                                         *)
(* Python strings are modelled as sequences of one-character strings, so   *)
(* that join, split and strip are computed as the code computes them.      *)
(***************************************************************************)
EXTENDS Integers, Sequences, FiniteSets, TLC

VARIABLES
    path,          \* create_gnmi_path: the argument
    pathResult,    \* create_gnmi_path: status "pending", or what the call produced
    tv,            \* get_value: the TypedValue handed in
    decoded,       \* get_value: status "pending", or what the call produced
    yang_keywords, \* GNMIManager.yang_keywords: namespace -> key leaf names
    response,      \* get: the GetResponse the device answers with
    getResult,     \* get: status "pending", or what the call produced
    stream,        \* subscribe: the SubscribeResponses the device sends
    cursor,        \* subscribe: <<message, update>> the generator goes on from
    yielded,       \* subscribe: the documents yielded so far
    subStatus,     \* subscribe: "running", "done" or "GNMIException"
    esName,        \* yang_path_to_es_index: the argument
    esClock,       \* yang_path_to_es_index: what the clock reads at the two calls of get_date
    esLayout,      \* yang_path_to_es_index: the str layout of the interpreter
    esIndex,       \* yang_path_to_es_index: status "pending", or what the call produced
    setConfigs,    \* ParsedSetRequest: the configs dict, its items in insertion order
    setRequest,    \* ParsedSetRequest: status "pending", or what the constructor produced
    cfgModels,     \* get_config: the config_models argument
    cfgDevice,     \* get_config: how the device answers the Gets
    cfgResult,     \* get_config: status "pending", or what the call produced
    upData,        \* upload: the documents to upload
    upServer,      \* upload: how the Elasticsearch server answers
    upResult,      \* upload: status "pending", or what the call produced
    calls,         \* GNMIManager: the calls of its operations made so far
    called         \* GNMIManager: the operations called and how each ended

pathVars  == <<path, pathResult>>
valueVars == <<tv, decoded>>
getVars   == <<response, getResult>>
subVars   == <<stream, cursor, yielded, subStatus>>
indexVars == <<esName, esClock, esLayout, esIndex>>
setVars == <<setConfigs, setRequest>>
configVars == <<cfgModels, cfgDevice, cfgResult>>
uploadVars == <<upData, upServer, upResult>>
managerVars == <<calls, called>>
vars == <<pathVars, valueVars, yang_keywords, getVars, subVars, indexVars, setVars, configVars, uploadVars, managerVars>>

(***************************************************************************)
(* Strings                                                                 *)
(***************************************************************************)
Range(s) == {s[i] : i \in 1..Len(s)}

Quote == "\""

\* The concatenation of a sequence of strings.
RECURSIVE Concat(_)
Concat(ss) == IF ss = <<>> THEN <<>> ELSE Head(ss) \o Concat(Tail(ss))

\* sep.join(ss)
RECURSIVE Join(_, _)
Join(ss, sep) ==
    IF ss = <<>> THEN <<>>
    ELSE IF Len(ss) = 1 THEN ss[1]
    ELSE ss[1] \o sep \o Join(Tail(ss), sep)

\* s.count(c) for a one-character c
Count(s, c) == Cardinality({i \in 1..Len(s) : s[i] = c})

\* s.strip(c) for a one-character c
RECURSIVE LStrip(_, _)
LStrip(s, c) == IF s # <<>> /\ Head(s) = c THEN LStrip(Tail(s), c) ELSE s
RECURSIVE RStrip(_, _)
RStrip(s, c) ==
    IF s # <<>> /\ s[Len(s)] = c THEN RStrip(SubSeq(s, 1, Len(s) - 1), c) ELSE s
Strip(s, c) == RStrip(LStrip(s, c), c)

\* The index of the first c in s at or after position i, 0 when there is none.
RECURSIVE Find(_, _, _)
Find(s, c, i) ==
    IF i > Len(s) THEN 0 ELSE IF s[i] = c THEN i ELSE Find(s, c, i + 1)

\* s.split(c, 1): one or two pieces
Split1(s, c) ==
    LET i == Find(s, c, 1)
    IN  IF i = 0 THEN <<s>> ELSE <<SubSeq(s, 1, i - 1), SubSeq(s, i + 1, Len(s))>>

\* s.split(c): every piece
RECURSIVE SplitAll(_, _)
SplitAll(s, c) ==
    LET i == Find(s, c, 1)
    IN  IF i = 0 THEN <<s>>
        ELSE <<SubSeq(s, 1, i - 1)>> \o SplitAll(SubSeq(s, i + 1, Len(s)), c)

\* s.replace(c, "") for a one-character c
Remove(s, c) == SelectSeq(s, LAMBDA x : x # c)

\* Op(v), with v computed once: a local name bound to a value.
With(v, Op(_)) == CHOOSE r \in {Op(x) : x \in {v}} : TRUE

(***************************************************************************)
(* A Python dict with string keys is the set of its <<key, value>> pairs.  *)
(***************************************************************************)
DictKeys(d) == {kv[1] : kv \in d}

DictGet(d, k) == (CHOOSE kv \in d : kv[1] = k)[2]

\* d[k] = v
DictSet(d, k, v) == {kv \in d : kv[1] # k} \cup {<<k, v>>}

(***************************************************************************)
(* utils.create_gnmi_path                                                  *)
(***************************************************************************)
\* The lookahead of the split pattern, (?:[^\[\]]|\[[^\[\]]+\])*$, tried on
\* s from position i. st is the matcher's place: 0 outside a group, 1 right
\* after "[", 2 inside a group that already holds a character.
RECURSIVE TailOK(_, _, _)
TailOK(s, i, st) ==
    IF i > Len(s) THEN st = 0
    ELSE LET c == s[i]
         IN  CASE st = 0 -> IF c = "]" THEN FALSE
                            ELSE TailOK(s, i + 1, IF c = "[" THEN 1 ELSE 0)
               [] st = 1 -> IF c \in {"[", "]"} THEN FALSE ELSE TailOK(s, i + 1, 2)
               [] OTHER  -> IF c = "[" THEN FALSE
                            ELSE TailOK(s, i + 1, IF c = "]" THEN 0 ELSE 2)

\* A plausible slip: every "/" splits, bracketed or not.
SplitPointsEverySlash(p) == {i \in 1..Len(p) : p[i] = "/"}

\* The positions at which re.split cuts: a "/" whose lookahead matches.
SplitPoints(p) == {i \in 1..Len(p) : p[i] = "/" /\ TailOK(p, i + 1, 0)}

\* re.split(pattern, p)
ReSplit(p) ==
    LET pts == SplitPoints(p)
        RECURSIVE go(_, _)
        go(start, i) ==
            IF i > Len(p) THEN <<SubSeq(p, start, Len(p))>>
            ELSE IF i \in pts THEN <<SubSeq(p, start, i - 1)>> \o go(i + 1, i + 1)
            ELSE go(start, i + 1)
    IN  go(1, 1)

\* path_list: the pieces with the first dropped when the path starts with "/"
\* and the last dropped when it ends with one (the slices [1:-1], [1:], [:-1]).
PathList(p) ==
    LET l  == ReSplit(p)
        lo == IF p[1] = "/" THEN 2 ELSE 1
        hi == IF p[Len(p)] = "/" THEN Len(l) - 1 ELSE Len(l)
    IN  SubSeq(l, lo, hi)

\* re.findall(r"\[(.*?)\]", elem): from each "[" to the nearest "]" after it.
RECURSIVE FindAllKeys(_, _)
FindAllKeys(e, i) ==
    LET o == Find(e, "[", i)
        c == IF o = 0 THEN 0 ELSE Find(e, "]", o + 1)
    IN  IF o = 0 \/ c = 0 THEN <<>>
        ELSE <<SubSeq(e, o + 1, c - 1)>> \o FindAllKeys(e, c + 1)

\* dict(pairs): a later pair with the same key wins.
RECURSIVE DictOf(_)
DictOf(pairs) ==
    IF pairs = <<>> THEN {}
    ELSE LET p == pairs[Len(pairs)]
         IN  DictSet(DictOf(SubSeq(pairs, 1, Len(pairs) - 1)), p[1], p[2])

\* One PathElem(name=elem_name, key=dict_keys), or the ValueError dict()
\* raises on a predicate without "=".
PathElem(e) ==
    LET elem_name == Split1(e, "[")[1]
        elem_keys == FindAllKeys(e, 1)
        pairs     == [i \in 1..Len(elem_keys) |-> Split1(elem_keys[i], "=")]
    IN  IF \E i \in 1..Len(pairs) : Len(pairs[i]) # 2
        THEN [status |-> "ValueError"]
        ELSE [status |-> "ok", name |-> elem_name, key |-> DictOf(pairs)]

\* create_gnmi_path(p): Path(elem=path_elements), or the error raised.
create_gnmi_path(p) ==
    IF p = <<>> THEN [status |-> "IndexError"]
    ELSE LET l  == PathList(p)
             es == [i \in 1..Len(l) |-> PathElem(l[i])]
         IN  IF \E i \in 1..Len(es) : es[i].status # "ok"
             THEN [status |-> "ValueError"]
             ELSE [status |-> "ok",
                   elem |-> [i \in 1..Len(es) |-> [name |-> es[i].name, key |-> es[i].key]]]

(***************************************************************************)
(* A parsed JSON document is a tree: a scalar, a dict (its fields in       *)
(* document order, the order items() visits them in) or a list.            *)
(***************************************************************************)
Scalar(x)  == [kind |-> "scalar", v |-> x, items |-> <<>>]
Dict(fs)   == [kind |-> "dict", v |-> <<>>, items |-> fs]
List(xs)   == [kind |-> "list", v |-> <<>>, items |-> xs]
Field(n, x) == [name |-> n, value |-> x]

\* The keys file read at construction: the key leaf names of each namespace.
KeysFile == [ns \in {<<"n">>} |-> {<<"k">>}]

(***************************************************************************)
(* GNMIManager.get_value                                                   *)
(*                                                                         *)
(* A 64-bit integer is a sign and a magnitude of four 16-bit limbs, most   *)
(* significant first, so that 2**63 and 2**64 - 1 are exact.               *)
(***************************************************************************)
Base == 2 ^ 16

Zero64 == <<0, 0, 0, 0>>

\* 2**63 - 1, the bound of int_parse
MaxSigned == <<32767, 65535, 65535, 65535>>

\* a > b on magnitudes
MagGreater(a, b) ==
    \E i \in 1..4 : a[i] > b[i] /\ \A j \in 1..(i - 1) : a[j] = b[j]

\* value > bound, for a signed value and a non-negative bound
IntGreater(value, bound) == ~value.neg /\ MagGreater(value.mag, bound)

\* divmod(m, 10): <<quotient, remainder>>
DivMod10(m) ==
    LET r1 == m[1] % 10
        x2 == r1 * Base + m[2]
        x3 == (x2 % 10) * Base + m[3]
        x4 == (x3 % 10) * Base + m[4]
    IN  << <<m[1] \div 10, x2 \div 10, x3 \div 10, x4 \div 10>>, x4 % 10 >>

Digits == <<"0", "1", "2", "3", "4", "5", "6", "7", "8", "9">>

\* str(value) of a non-negative integer: its decimal digits
RECURSIVE MagToStr(_)
MagToStr(m) ==
    LET qr == DivMod10(m)
    IN  IF qr[1] = Zero64 THEN <<Digits[qr[2] + 1]>>
        ELSE MagToStr(qr[1]) \o <<Digits[qr[2] + 1]>>

IntToStr(value) == (IF value.neg THEN <<"-">> ELSE <<>>) \o MagToStr(value.mag)

\* A plausible slip: the comparison against 2**63, one too far.
int_parse_off_by_one(value) ==
    IF IntGreater(value, <<32768, 0, 0, 0>>)
    THEN [type |-> "str", val |-> IntToStr(value)]
    ELSE [type |-> "int", val |-> value]

\* int_parse: the integer, or its decimal string when it exceeds 2**63 - 1
int_parse(value) ==
    IF IntGreater(value, MaxSigned)
    THEN [type |-> "str", val |-> IntToStr(value)]
    ELSE [type |-> "int", val |-> value]

\* value_encodings: the decoding function of each tag
value_encodings ==
    [string_val    |-> "str",
     int_val       |-> "int_parse",
     uint_val      |-> "int_parse",
     bool_val      |-> "bool",
     bytes_val     |-> "bytes",
     float_val     |-> "float",
     decimal_val   |-> "decimal_parse",
     leaflist_val  |-> "leaf_list_parse",
     json_val      |-> "json.loads",
     json_ietf_val |-> "json.loads",
     ascii_val     |-> "str",
     proto_bytes   |-> "bytes"]

\* A plausible slip: value_encodings.get(tag, str), a default for a field
\* the table does not know.
LookupOrDefault(tag) ==
    IF tag \in DOMAIN value_encodings
    THEN [status |-> "ok", func |-> value_encodings[tag]]
    ELSE IF tag = "NONE" THEN [status |-> "KeyError"]
    ELSE [status |-> "ok", func |-> "str"]

\* A TypedValue: the field of the oneof "value" that is set, under its own
\* name, and tag, what WhichOneof("value") answers ("NONE" for None, no
\* field being set).
TypedValue(tag, v) == [f \in {"tag", tag} |-> IF f = "tag" THEN tag ELSE v]

\* The TypedValue with no field set.
Unset == [tag |-> "NONE"]

WhichOneof(type_value) == type_value.tag

getattr(type_value, value_type) == type_value[value_type]

\* A native value with its type: the field named by the type holds it.
PyValue(type, v) == [f \in {"type", type} |-> IF f = "type" THEN type ELSE v]

\* value_encodings[tag]: the function, or the KeyError of a tag the table
\* does not hold (None, the tag of an unset value, among them).
Lookup(tag) ==
    IF tag \in DOMAIN value_encodings
    THEN [status |-> "ok", func |-> value_encodings[tag]]
    ELSE [status |-> "KeyError"]

\* func(getattr(type_value, value_type)), the same for an element of a
\* leaf-list: the native value, or the error raised.
RECURSIVE get_value(_)
get_value(type_value) ==
    LET value_type == WhichOneof(type_value)
        f == Lookup(value_type)
    IN  IF f.status # "ok" THEN [status |-> "KeyError"]
        ELSE LET v == getattr(type_value, value_type)
             IN  CASE f.func = "str"   -> [status |-> "ok", type |-> "str", val |-> v]
                   [] f.func = "bool"  -> [status |-> "ok", type |-> "bool", val |-> v]
                   [] f.func = "bytes" -> [status |-> "ok", type |-> "bytes", val |-> v]
                   [] f.func = "float" -> [status |-> "ok", type |-> "float", val |-> v]
                   [] f.func = "decimal_parse" ->
                        [status |-> "ok", type |-> "int", val |-> v.digits]
                   [] f.func = "int_parse" ->
                        [status |-> "ok", type |-> int_parse(v).type,
                         val |-> int_parse(v).val]
                   [] f.func = "json.loads" ->
                        IF v.json THEN [status |-> "ok", type |-> "json", val |-> v.doc]
                        ELSE [status |-> "JSONDecodeError"]
                   [] f.func = "leaf_list_parse" ->
                        LET each == [i \in 1..Len(v) |-> get_value(v[i])]
                        IN  IF \E i \in 1..Len(each) : each[i].status # "ok"
                            THEN [status |->
                                    each[CHOOSE i \in 1..Len(each) :
                                           /\ each[i].status # "ok"
                                           /\ \A j \in 1..(i - 1) : each[j].status = "ok"].status]
                            ELSE [status |-> "ok", type |-> "list",
                                  val |-> [i \in 1..Len(each) |->
                                             PyValue(each[i].type, each[i].val)]]

(***************************************************************************)
(* GNMIManager._walk_yang_data                                             *)
(*                                                                         *)
(* The key dicts are objects: a record appended to leaves holds a          *)
(* reference to its dict, and keys[in_key] = in_value changes the dict the *)
(* caller handed in. st.heap holds the dicts, a reference is an index into *)
(* it, and st.leaves is the list the walk appends to.                      *)
(***************************************************************************)
Leaf(ref, yp, item) == [keys |-> ref, yang_path |-> Join(yp, <<"/">>), value |-> item]

\* key_temp = keys.copy(): a new dict with the entries of the caller's.
WalkKeysCopy(st, keys) ==
    [heap |-> Append(st.heap, st.heap[keys]), leaves |-> st.leaves,
     key_temp |-> Len(st.heap) + 1]

\* A plausible slip: a key leaf is emitted as a record as well.
ScalarLeafEmitKeys(st, yp, in_key, in_value, keywords, keys, key_temp) ==
    [heap |-> IF in_key \in keywords
              THEN [st.heap EXCEPT ![keys] = DictSet(@, in_key, in_value.v)]
              ELSE st.heap,
     leaves |-> Append(st.leaves, Leaf(key_temp, yp, in_value))]

\* The scalar branch: a key leaf is stored in the caller's dict, any other
\* leaf is appended with the copy.
ScalarLeaf(st, yp, in_key, in_value, keywords, keys, key_temp) ==
    IF in_key \in keywords
    THEN [heap |-> [st.heap EXCEPT ![keys] = DictSet(@, in_key, in_value.v)],
          leaves |-> st.leaves]
    ELSE [heap |-> st.heap,
          leaves |-> Append(st.leaves, Leaf(key_temp, yp, in_value))]

RECURSIVE _walk_yang_data(_, _, _, _, _, _)
RECURSIVE WalkItems(_, _, _, _, _)
RECURSIVE WalkList(_, _, _, _, _)

\* for key, value in d.items(): self._walk_yang_data(yp, key, value, keywords, keys, leaves)
WalkItems(st, yp, fields, keywords, keys) ==
    IF fields = <<>> THEN st
    ELSE WalkItems(_walk_yang_data(st, yp, fields[1].name, fields[1].value, keywords, keys),
                   yp, Tail(fields), keywords, keys)

\* for item in in_value: a dict's fields are walked, anything else is a leaf
WalkList(st, yp, items, keywords, key_temp) ==
    IF items = <<>> THEN st
    ELSE LET item == Head(items)
             s1 == IF item.kind = "dict"
                   THEN WalkItems(st, yp, item.items, keywords, key_temp)
                   ELSE [heap |-> st.heap,
                         leaves |-> Append(st.leaves, Leaf(key_temp, yp, item))]
         IN  WalkList(s1, yp, Tail(items), keywords, key_temp)

_walk_yang_data(st, start_yang_path, in_key, in_value, keywords, keys) ==
    LET yp == Append(start_yang_path, in_key)
        c  == WalkKeysCopy(st, keys)
        s1 == [heap |-> c.heap, leaves |-> c.leaves]
    IN  CASE in_value.kind = "dict" -> WalkItems(s1, yp, in_value.items, keywords, c.key_temp)
          [] in_value.kind = "list" -> WalkList(s1, yp, in_value.items, keywords, c.key_temp)
          [] OTHER -> ScalarLeaf(s1, yp, in_key, in_value, keywords, keys, c.key_temp)

(***************************************************************************)
(* GNMIManager.get                                                         *)
(*                                                                         *)
(* A document keeps the fields the claims read: keys, yang_path and the    *)
(* leaf field (its name and value).                                        *)
(***************************************************************************)
\* value.replace('"', "").replace("'", "")
UnquoteAll(v) == Remove(Remove(v, Quote), "'")

\* for key, value in elem.key.items(): start_yang_keys[key] = ...
RECURSIVE PathKeys(_, _)
PathKeys(d, elems) ==
    IF elems = <<>> THEN d
    ELSE LET k  == Head(elems).key
             d1 == {kv \in d : kv[1] \notin DictKeys(k)}
                     \cup {<<kv[1], UnquoteAll(kv[2])>> : kv \in k}
         IN  PathKeys(d1, Tail(elems))

\* "-".join(yang_path.split("/")[-2:])
LeafName(yang_path) ==
    LET parts == SplitAll(yang_path, "/")
        n     == Len(parts)
    IN  Join(SubSeq(parts, IF n > 2 THEN n - 1 ELSE 1, n), <<"-">>)

\* The document built from one entry of sub_yang_info.
Document(heap, start_yang_path_str, sub_yang) ==
    LET yang_path == start_yang_path_str \o <<"/">> \o sub_yang.yang_path
    IN  [keys |-> heap[sub_yang.keys], yang_path |-> yang_path,
         leaf |-> LeafName(yang_path), value |-> sub_yang.value]

\* A record of sub_yang_info with its key dict read through the reference.
Resolved(heap, sub_yang) ==
    [keys |-> heap[sub_yang.keys], yang_path |-> sub_yang.yang_path,
     value |-> sub_yang.value]

\* The walk of the decoded value: each dict of a list, or the dict itself,
\* field by field with sub_yang_path and start_yang_keys. "AttributeError"
\* when a value that is no dict is asked for its items().
WalkResponseValue(st, response_value, keywords, start_yang_keys) ==
    LET RECURSIVE each(_, _)
        each(s0, subs) ==
            IF subs = <<>> THEN [status |-> "ok", st |-> s0]
            ELSE IF Head(subs).kind # "dict" THEN [status |-> "AttributeError"]
            ELSE each(WalkItems(s0, <<>>, Head(subs).items, keywords, start_yang_keys),
                      Tail(subs))
    IN  IF response_value.kind = "list" THEN each(st, response_value.items)
        ELSE each(st, <<response_value>>)

\* The body of "for update in notification.update", on the locals of the
\* notification loop n: start_yang_path, start_yang_keys (a reference),
\* sub_yang_info, the heap, rc, and walked (the records each update's walk
\* appended, kept to state the flattener's claims).
UpdateStep(n, update, keywordIndex) ==
    LET start_yang_path ==
            n.start_yang_path \o [i \in 1..Len(update.path) |-> update.path[i].name]
        heap1 == [n.heap EXCEPT ![n.start_yang_keys] = PathKeys(@, update.path)]
        raised(e) == [n EXCEPT !.status = e]
    IN  IF start_yang_path = <<>> THEN raised("IndexError")
        ELSE LET ns == SplitAll(start_yang_path[1], ":")[1]
             IN  IF ns \notin DOMAIN keywordIndex THEN raised("KeyError")
                 ELSE LET keywords == keywordIndex[ns]
                          start_yang_path_str == Join(start_yang_path, <<"/">>)
                          response_value == get_value(update.val)
                      IN  IF response_value.status # "ok" THEN raised(response_value.status)
                          ELSE IF WhichOneof(update.val) \notin {"json_val", "json_ietf_val"}
                          THEN raised("Unsupported Get encoding")
                          ELSE LET w == WalkResponseValue(
                                            [heap |-> heap1, leaves |-> n.sub_yang_info],
                                            response_value.val, keywords, n.start_yang_keys)
                               IN  IF w.status # "ok" THEN raised(w.status)
                                   ELSE [status |-> "ok",
                                         start_yang_path |-> start_yang_path,
                                         start_yang_keys |-> n.start_yang_keys,
                                         heap |-> w.st.heap,
                                         sub_yang_info |-> w.st.leaves,
                                         rc |-> n.rc \o
                                                [i \in 1..Len(w.st.leaves) |->
                                                   Document(w.st.heap, start_yang_path_str,
                                                            w.st.leaves[i])],
                                         walked |-> Append(n.walked,
                                                [i \in 1..(Len(w.st.leaves) - Len(n.sub_yang_info)) |->
                                                   Resolved(w.st.heap,
                                                            w.st.leaves[Len(n.sub_yang_info) + i])])]

\* The body of "for notification in response.notification": fresh
\* start_yang_path, start_yang_keys, sub_yang_path and sub_yang_info, then
\* every update in order.
NotificationStep(g, notification, keywordIndex) ==
    LET RECURSIVE updates(_, _)
        updates(n, us) ==
            IF us = <<>> \/ n.status # "ok" THEN n
            ELSE updates(UpdateStep(n, Head(us), keywordIndex), Tail(us))
        done == updates([status |-> "ok", start_yang_path |-> <<>>,
                         start_yang_keys |-> 1, heap |-> <<{}>>,
                         sub_yang_info |-> <<>>, rc |-> g.rc, walked |-> <<>>],
                        notification.update)
    IN  [status |-> done.status, rc |-> done.rc, walked |-> Append(g.walked, done.walked)]

\* get, from the GetResponse on: the documents, or the GNMIException every
\* exception is turned into (cause names the exception caught).
get(resp, keywordIndex) ==
    LET RECURSIVE notifications(_, _)
        notifications(g, ns) ==
            IF ns = <<>> \/ g.status # "ok" THEN g
            ELSE notifications(NotificationStep(g, Head(ns), keywordIndex), Tail(ns))
        g == notifications([status |-> "ok", rc |-> <<>>, walked |-> <<>>], resp)
    IN  IF g.status = "ok" THEN g
        ELSE [status |-> "GNMIException", cause |-> g.status, rc |-> <<>>,
              walked |-> g.walked]

(***************************************************************************)
(* GNMIManager.subscribe                                                   *)
(*                                                                         *)
(* A SubscribeResponse is [sync_response, update], update the Notification *)
(* [prefix |-> [origin, elem], timestamp, update]. A document is the       *)
(* parsed_dict the ParsedResponse is made of, less byte_size, ip and index.*)
(***************************************************************************)
\* process_header: the keys of the prefix elements, later ones over earlier
\* ones, and "origin:name/name".
process_header(header) ==
    LET RECURSIVE update(_, _)
        update(keys, elems) ==
            IF elems = <<>> THEN keys
            ELSE LET ks == DictKeys(Head(elems).key)
                 IN  update({kv \in keys : kv[1] \notin ks} \cup Head(elems).key,
                            Tail(elems))
        yang_path == [i \in 1..Len(header.prefix.elem) |-> header.prefix.elem[i].name]
    IN  [keys |-> update({}, header.prefix.elem),
         yang_path |-> header.prefix.origin \o <<":">> \o Join(yang_path, <<"/">>)]

\* The body of "for update in response.update.update": the document, or the
\* exception get_value raised.
SubscribeDocument(resp, update) ==
    LET header == process_header(resp.update)
        value  == get_value(update.val)
        rc     == [i \in 1..Len(update.path) |-> update.path[i].name]
        total_yang_path == header.yang_path \o <<"/">> \o Join(rc, <<"/">>)
    IN  IF value.status # "ok" THEN [status |-> value.status]
        ELSE [status |-> "ok",
              doc |-> [timestamp |-> [num |-> resp.update.timestamp, den |-> 1000000],
                       keys |-> header.keys,
                       yang_path |-> total_yang_path,
                       leaf |-> LeafName(total_yang_path),
                       value |-> PyValue(value.type, value.val)]]

\* A subscribe that drops the rest of a message whose update fails and goes
\* on with the next message.
RECURSIVE SubscribeResumeNextMessage(_, _, _)
SubscribeResumeNextMessage(s, m, u) ==
    IF m > Len(s) THEN [status |-> "StopIteration", m |-> m, u |-> u]
    ELSE IF s[m].sync_response \/ u > Len(s[m].update.update)
    THEN SubscribeResumeNextMessage(s, m + 1, 1)
    ELSE LET d == SubscribeDocument(s[m], s[m].update.update[u])
         IN  IF d.status # "ok" THEN SubscribeResumeNextMessage(s, m + 1, 1)
             ELSE [status |-> "yield", doc |-> d.doc, m |-> m, u |-> u + 1]

\* A subscribe that yields the document of the first update of a message
\* only.
RECURSIVE SubscribeResumeFirstUpdate(_, _, _)
SubscribeResumeFirstUpdate(s, m, u) ==
    IF m > Len(s) THEN [status |-> "StopIteration", m |-> m, u |-> u]
    ELSE IF s[m].sync_response \/ u > 1 \/ u > Len(s[m].update.update)
    THEN SubscribeResumeFirstUpdate(s, m + 1, 1)
    ELSE LET d == SubscribeDocument(s[m], s[m].update.update[u])
         IN  IF d.status # "ok"
             THEN [status |-> "GNMIException", cause |-> d.status, m |-> m, u |-> u]
             ELSE [status |-> "yield", doc |-> d.doc, m |-> m, u |-> u + 1]

\* The generator run from update u of message m of the stream s to where it
\* stops next: the yield of a document, the end of the stream, or the
\* GNMIException an exception inside the try is turned into.
RECURSIVE SubscribeResume(_, _, _)
SubscribeResume(s, m, u) ==
    IF m > Len(s) THEN [status |-> "StopIteration", m |-> m, u |-> u]
    ELSE IF s[m].sync_response \/ u > Len(s[m].update.update)
    THEN SubscribeResume(s, m + 1, 1)
    ELSE LET d == SubscribeDocument(s[m], s[m].update.update[u])
         IN  IF d.status # "ok"
             THEN [status |-> "GNMIException", cause |-> d.status, m |-> m, u |-> u]
             ELSE [status |-> "yield", doc |-> d.doc, m |-> m, u |-> u + 1]


(***************************************************************************)
(* utils.get_date and utils.yang_path_to_es_index                          *)
(*                                                                         *)
(* A character outside ASCII is written by its code point, "U+00E9"; it is *)
(* one element of the string, as it is one character of the Python str.    *)
(***************************************************************************)
\* s.replace(c, d) for a one-character c and d
Replace(s, c, d) == [i \in 1..Len(s) |-> IF s[i] = c THEN d ELSE s[i]]

\* c.lower() for one character
LowerChar(c) ==
    CASE c = "A" -> "a"
      [] c = "U+00C9" -> "U+00E9"
      [] OTHER -> c

\* s.lower()
Lower(s) == [i \in 1..Len(s) |-> LowerChar(s[i])]

\* The number of bytes one character needs in a str of its own: 1 for ASCII
\* and for Latin-1, 2 up to U+FFFF, 4 above.
CharWidth(c) ==
    CASE c \in {"U+00C9", "U+00E9"} -> 1
      [] c = "U+5B57" -> 2
      [] c = "U+1F600" -> 4
      [] OTHER -> 1

IsAscii(c) == c \notin {"U+00C9", "U+00E9", "U+5B57", "U+1F600"}

\* len(c.encode()): the number of bytes of the character's UTF-8 encoding
Utf8Len(c) ==
    CASE c \in {"U+00C9", "U+00E9"} -> 2
      [] c = "U+5B57" -> 3
      [] c = "U+1F600" -> 4
      [] OTHER -> 1

\* len(s.encode())
RECURSIVE EncodedLen(_)
EncodedLen(s) == IF s = <<>> THEN 0 ELSE Utf8Len(Head(s)) + EncodedLen(Tail(s))

\* The sizes of CPython's str objects: the bytes of an object without its
\* characters, by the width of its widest character.  The object header
\* lost 8 bytes (ASCII) or 16 bytes (other) with CPython 3.12.
StrLayouts ==
    { [ascii |-> 49, latin1 |-> 73, ucs2 |-> 74, ucs4 |-> 76],
      [ascii |-> 41, latin1 |-> 57, ucs2 |-> 58, ucs4 |-> 60] }

\* sys.getsizeof(s): the bytes of memory the str object takes.  The widest
\* character decides the bytes every character takes.
getsizeof(s, layout) ==
    LET widths == {CharWidth(s[i]) : i \in 1..Len(s)}
    IN  IF \A i \in 1..Len(s) : IsAscii(s[i]) THEN layout.ascii + Len(s)
        ELSE IF 4 \in widths THEN layout.ucs4 + 4 * Len(s)
        ELSE IF 2 \in widths THEN layout.ucs2 + 2 * Len(s)
        ELSE layout.latin1 + Len(s)

DecimalDigits == <<"0", "1", "2", "3", "4", "5", "6", "7", "8", "9">>

\* str(n) for a natural number n
RECURSIVE StrOfNat(_)
StrOfNat(n) ==
    IF n < 10 THEN <<DecimalDigits[n + 1]>>
    ELSE StrOfNat(n \div 10) \o <<DecimalDigits[(n % 10) + 1]>>

\* f"{n:02d}"
Format02d(n) == IF n < 10 THEN <<"0">> \o StrOfNat(n) ELSE StrOfNat(n)

\* get_date, the clock reading now: "YYYY.MM.DD"
get_date(now) ==
    Join(<<StrOfNat(now.year), Format02d(now.month), Format02d(now.day)>>, <<".">>)

\* The index of the last c in s at or before position i, 0 when there is none.
RECURSIVE RFind(_, _, _)
RFind(s, c, i) ==
    IF i = 0 THEN 0 ELSE IF s[i] = c THEN i ELSE RFind(s, c, i - 1)

\* "-".join(index.split("-")[:-1]): the pieces but the last one, joined
\* again, which is what stands before the last "-", and "" without a "-".
DropLastPiece(index) ==
    LET last == RFind(index, "-", Len(index))
    IN  IF last = 0 THEN <<>> ELSE SubSeq(index, 1, last - 1)

\* The largest sum of sizes the loop of yang_path_to_es_index leaves alone.
IndexLimit == 255

\* The loop of yang_path_to_es_index: the last "-"-separated piece is
\* dropped while the sizes of the index and of the date exceed IndexLimit.
RECURSIVE TruncateIndex(_, _, _)
TruncateIndex(index, size_of_date, layout) ==
    IF getsizeof(index, layout) + size_of_date > IndexLimit
    THEN TruncateIndex(DropLastPiece(index), size_of_date, layout)
    ELSE index

\* name with its separators replaced, as the first statement does
IndexOf(name) ==
    Remove(Remove(Replace(Replace(Lower(Replace(name, "/", "-")), ":", "-"),
                          "[", "-"), "]"), Quote)

\* yang_path_to_es_index(name): the clock is read twice, first for the size
\* of the date and then for the date of the suffix.
yang_path_to_es_index(name, now1, now2, layout) ==
    LET date == get_date(now1)
        index == TruncateIndex(IndexOf(name), getsizeof(date, layout), layout)
    IN  index \o <<"-", "g", "n", "m", "i", "-">> \o get_date(now2)

(***************************************************************************)
(* responses.ParsedSetRequest                                              *)
(*                                                                         *)
(* The configs dict is the sequence of its <<path, config>> items in       *)
(* insertion order, the order keys() and items() iterate in.               *)
(***************************************************************************)
\* One character of a str inside json.dumps: a quote and a backslash are
\* escaped.
JsonEscape(c) ==
    IF c = Quote THEN <<"\\", Quote>>
    ELSE IF c = "\\" THEN <<"\\", "\\">>
    ELSE <<c>>

\* json.dumps of a str
JsonString(s) ==
    <<Quote>> \o Concat([i \in 1..Len(s) |-> JsonEscape(s[i])]) \o <<Quote>>

\* json.dumps(config): a dict as {"name": value, ...}, a list as
\* [value, ...], with the default separators ", " and ": ".
RECURSIVE json_dumps(_)
json_dumps(config) ==
    CASE config.kind = "scalar" -> JsonString(config.v)
      [] config.kind = "dict" ->
            <<"{">>
            \o Join([i \in 1..Len(config.items) |->
                        JsonString(config.items[i].name) \o <<":", " ">>
                        \o json_dumps(config.items[i].value)], <<",", " ">>)
            \o <<"}">>
      [] OTHER ->
            <<"[">>
            \o Join([i \in 1..Len(config.items) |-> json_dumps(config.items[i])],
                    <<",", " ">>)
            \o <<"]">>

\* The paths or updates built so far, or the exception that ended the loop.
SetLoop(features, build(_)) ==
    LET RECURSIVE loop(_, _)
        loop(acc, i) ==
            IF i > Len(features) THEN [status |-> "ok", list |-> acc]
            ELSE With(create_gnmi_path(features[i][1]), LAMBDA p :
                    IF p.status # "ok" THEN [status |-> p.status]
                    ELSE With(Append(acc, build(<<p.elem, features[i][2]>>)),
                              LAMBDA longer : loop(longer, i + 1)))
    IN  loop(<<>>, 1)

\* A _create_delete_paths that appends the paths in reverse order.
_create_delete_paths_reversed(features) ==
    SetLoop([i \in 1..Len(features) |-> features[Len(features) + 1 - i]],
            LAMBDA pc : [elem |-> pc[1]])

\* _create_delete_paths: create_gnmi_path(key) for every key
_create_delete_paths(features) ==
    SetLoop(features, LAMBDA pc : [elem |-> pc[1]])

\* _create_updates: for every item the Update of create_gnmi_path(path) and
\* the TypedValue with json.dumps(config).encode() as json_ietf_val
_create_updates(features) ==
    SetLoop(features,
            LAMBDA pc : [path |-> [elem |-> pc[1]],
                         val |-> TypedValue("json_ietf_val", json_dumps(pc[2]))])

\* ParsedSetRequest(configs): the three requests, built one after the
\* other, or the exception the first failing one raised.
ParsedSetRequest(configs) ==
    LET delete  == _create_delete_paths(configs)
        update  == _create_updates(configs)
        replace == _create_updates(configs)
    IN  IF delete.status # "ok" THEN [status |-> delete.status]
        ELSE IF update.status # "ok" THEN [status |-> update.status]
        ELSE IF replace.status # "ok" THEN [status |-> replace.status]
        ELSE [status |-> "ok",
              delete_request  |-> [delete |-> delete.list],
              update_request  |-> [update |-> update.list],
              replace_request |-> [replace |-> replace.list]]

(***************************************************************************)
(* json.loads, on the texts json.dumps writes and on malformed ones        *)
(***************************************************************************)
\* The first position at or after i that holds no space.
RECURSIVE SkipSpaces(_, _)
SkipSpaces(s, i) == IF i <= Len(s) /\ s[i] = " " THEN SkipSpaces(s, i + 1) ELSE i

\* The str whose opening quote stands before position j: its characters up
\* to the closing quote, a backslash taking the character after it.
RECURSIVE ScanString(_, _, _)
ScanString(s, j, acc) ==
    IF j > Len(s) THEN [status |-> "JSONDecodeError"]
    ELSE IF s[j] = Quote THEN [status |-> "ok", val |-> Scalar(acc), next |-> j + 1]
    ELSE IF s[j] = "\\"
    THEN (IF j + 1 > Len(s) THEN [status |-> "JSONDecodeError"]
          ELSE ScanString(s, j + 2, Append(acc, s[j + 1])))
    ELSE ScanString(s, j + 1, Append(acc, s[j]))

\* A dict with name set to x: a name already there keeps its place.
SetField(fields, name, x) ==
    IF \E i \in 1..Len(fields) : fields[i].name = name
    THEN [i \in 1..Len(fields) |->
            IF fields[i].name = name THEN Field(name, x) ELSE fields[i]]
    ELSE Append(fields, Field(name, x))

RECURSIVE ParseValue(_, _)
RECURSIVE ParseMembers(_, _, _)
RECURSIVE ParseElements(_, _, _)

\* The JSON value that starts at position i0 and the position after it.
ParseValue(s, i0) ==
    With(SkipSpaces(s, i0), LAMBDA i :
        IF i > Len(s) THEN [status |-> "JSONDecodeError"]
        ELSE IF s[i] = Quote THEN ScanString(s, i + 1, <<>>)
        ELSE IF s[i] \in {"{", "["}
        THEN With(SkipSpaces(s, i + 1), LAMBDA j :
                IF j <= Len(s) /\ s[i] = "{" /\ s[j] = "}"
                THEN [status |-> "ok", val |-> Dict(<<>>), next |-> j + 1]
                ELSE IF j <= Len(s) /\ s[i] = "[" /\ s[j] = "]"
                THEN [status |-> "ok", val |-> List(<<>>), next |-> j + 1]
                ELSE IF s[i] = "{" THEN ParseMembers(s, i + 1, <<>>)
                ELSE ParseElements(s, i + 1, <<>>))
        ELSE [status |-> "JSONDecodeError"])

\* The members of an object from position i0 on: "name": value, ... }
ParseMembers(s, i0, acc) ==
    With(SkipSpaces(s, i0), LAMBDA i :
        IF i > Len(s) \/ s[i] # Quote THEN [status |-> "JSONDecodeError"]
        ELSE With(ScanString(s, i + 1, <<>>), LAMBDA name :
            IF name.status # "ok" THEN name
            ELSE With(SkipSpaces(s, name.next), LAMBDA c :
                IF c > Len(s) \/ s[c] # ":" THEN [status |-> "JSONDecodeError"]
                ELSE With(ParseValue(s, c + 1), LAMBDA x :
                    IF x.status # "ok" THEN x
                    ELSE With(SkipSpaces(s, x.next), LAMBDA e :
                        With(SetField(acc, name.val.v, x.val), LAMBDA fields :
                            IF e > Len(s) THEN [status |-> "JSONDecodeError"]
                            ELSE IF s[e] = "," THEN ParseMembers(s, e + 1, fields)
                            ELSE IF s[e] = "}"
                            THEN [status |-> "ok", val |-> Dict(fields), next |-> e + 1]
                            ELSE [status |-> "JSONDecodeError"]))))))

\* The elements of an array from position i0 on: value, ... ]
ParseElements(s, i0, acc) ==
    With(ParseValue(s, i0), LAMBDA x :
        IF x.status # "ok" THEN x
        ELSE With(SkipSpaces(s, x.next), LAMBDA e :
            With(Append(acc, x.val), LAMBDA items :
                IF e > Len(s) THEN [status |-> "JSONDecodeError"]
                ELSE IF s[e] = "," THEN ParseElements(s, e + 1, items)
                ELSE IF s[e] = "]"
                THEN [status |-> "ok", val |-> List(items), next |-> e + 1]
                ELSE [status |-> "JSONDecodeError"])))

\* json.loads(s): the value, or JSONDecodeError, also for text after it
json_loads(s) ==
    With(ParseValue(s, 1), LAMBDA x :
        IF x.status # "ok" THEN [status |-> "JSONDecodeError"]
        ELSE IF SkipSpaces(s, x.next) <= Len(s) THEN [status |-> "JSONDecodeError"]
        ELSE [status |-> "ok", val |-> x.val])

(***************************************************************************)
(* GNMIManager.get_config and GNMIManager._split_full_config               *)
(*                                                                         *)
(* The device is [version, hostname, answers]: how the Gets of             *)
(* _get_version and _get_hostname end, and what stub.Get answers to the    *)
(* first, second, ... Get of get_config itself, [rpc, notification]. A     *)
(* notification is [timestamp, update], the value of an update a           *)
(* json_ietf_val with the JSON text. An entry is the parsed_dict the       *)
(* ParsedResponse is made of, less byte_size, ip and index.                *)
(***************************************************************************)
RouterConfigs == <<"r", "o", "u", "t", "e", "r", "-", "c", "o", "n", "f", "i", "g", "s">>

\* _split_full_config: one GetResponse per model of the full configuration
\* and one that lists the models, or the exception raised.
_split_full_config(resp) ==
    LET updates == Concat([i \in 1..Len(resp) |-> resp[i].update])
        text(u) == IF WhichOneof(u.val) = "json_ietf_val" THEN u.val.json_ietf_val
                   ELSE <<>>
        RECURSIVE last(_, _)
        last(json, i) ==
            IF i > Len(updates) THEN [status |-> "ok", val |-> json]
            ELSE With(json_loads(text(updates[i])), LAMBDA x :
                    IF x.status # "ok" THEN x ELSE last(x.val, i + 1))
        one(p, config) ==
            <<[timestamp |-> resp[1].timestamp,
               update |-> <<[path |-> p,
                             val |-> TypedValue("json_ietf_val", json_dumps(config))]>>]>>
        RECURSIVE split(_, _, _)
        split(responses, models, items) ==
            IF items = <<>>
            THEN [status |-> "ok",
                  responses |->
                     Append(responses,
                            one(create_gnmi_path(RouterConfigs).elem,
                                Dict(<<Field(<<"c", "o", "n", "f", "i", "g", "s">>,
                                             List(models))>>)))]
            ELSE With(create_gnmi_path(Head(items).name), LAMBDA p :
                    IF p.status # "ok" THEN [status |-> p.status]
                    ELSE With(<<Append(responses, one(p.elem, Head(items).value)),
                                Append(models, Scalar(Head(items).name)),
                                Tail(items)>>,
                              LAMBDA next : split(next[1], next[2], next[3])))
    IN  IF resp = <<>> THEN [status |-> "IndexError"]
        ELSE With(last(Dict(<<>>), 1), LAMBDA full_config_json :
                IF full_config_json.status # "ok"
                THEN [status |-> full_config_json.status]
                ELSE IF full_config_json.val.kind # "dict"
                THEN [status |-> "AttributeError"]
                ELSE split(<<>>, <<>>, full_config_json.val.items))

\* The body of "for response in split_full_config_response": the entry, or
\* the exception raised.
ConfigEntry(resp) ==
    IF resp = <<>> \/ resp[1].update = <<>> \/ resp[1].update[1].path = <<>>
    THEN [status |-> "IndexError"]
    ELSE LET update == resp[1].update[1]
             config == json_loads(IF WhichOneof(update.val) = "json_ietf_val"
                                  THEN update.val.json_ietf_val ELSE <<>>)
         IN  IF config.status # "ok" THEN [status |-> config.status]
             ELSE [status |-> "ok",
                   entry |-> [timestamp |-> [num |-> resp[1].timestamp,
                                             den |-> 1000000],
                              model |-> update.path[1].name,
                              config |-> config.val]]

\* The loop over the models of get_config: one Get per model, each answer
\* taking the place of the one before it in split_full_config_response.
RECURSIVE ConfigModelsLoop(_, _, _, _, _)
ConfigModelsLoop(config_models, answers, i, gets, split_full_config_response) ==
    IF i > Len(config_models)
    THEN [status |-> "ok", gets |-> gets, responses |-> split_full_config_response]
    ELSE With(create_gnmi_path(config_models[i]), LAMBDA p :
            IF p.status # "ok" THEN [status |-> p.status, gets |-> gets]
            ELSE With(Append(gets, config_models[i]), LAMBDA issued :
                    IF answers[i].rpc # "ok"
                    THEN [status |-> answers[i].rpc, gets |-> issued]
                    ELSE ConfigModelsLoop(config_models, answers, i + 1, issued,
                                          <<answers[i].notification>>)))

\* get_config: the entries returned and the models a Get was issued for
\* (<<>> stands for the Get of the full configuration), or the
\* GNMIException every exception is turned into.
get_config(config_models, device) ==
    LET raised(e, gets) == [status |-> "GNMIException", cause |-> e, gets |-> gets,
                            responses |-> <<>>]
        RECURSIVE parse(_, _, _)
        parse(responses, gets, rest) ==
            IF rest = <<>> THEN [status |-> "ok", gets |-> gets, responses |-> responses]
            ELSE With(ConfigEntry(Head(rest)), LAMBDA e :
                    IF e.status # "ok" THEN raised(e.status, gets)
                    ELSE With(Append(responses, e.entry), LAMBDA longer :
                            With(Tail(rest), LAMBDA others :
                                    parse(longer, gets, others))))
    IN  IF device.version # "ok" THEN raised(device.version, <<>>)
        ELSE IF device.hostname # "ok" THEN raised(device.hostname, <<>>)
        ELSE IF config_models # <<>>
        THEN With(ConfigModelsLoop(config_models, device.answers, 1, <<>>, <<>>),
                  LAMBDA loop :
                    IF loop.status # "ok" THEN raised(loop.status, loop.gets)
                    ELSE parse(<<>>, loop.gets, loop.responses))
        ELSE IF device.answers[1].rpc # "ok" THEN raised(device.answers[1].rpc, <<<<>>>>)
        ELSE With(_split_full_config(device.answers[1].notification), LAMBDA split :
                    IF split.status # "ok" THEN raised(split.status, <<<<>>>>)
                    ELSE parse(<<>>, <<<<>>>>, split.responses))

(***************************************************************************)
(* uploader.ElasticSearchUploader.upload                                   *)
(*                                                                         *)
(* What requests.request does is an answer [raised, status_code]: raised   *)
(* when the call itself raises (no connection), the status code of the     *)
(* response otherwise. The server is [get, keys, answers]: the answer to   *)
(* the GET of the index list with the keys of its JSON body, and the       *)
(* answers to the first, second, ... PUT or POST. A request of the log is  *)
(* [method, index, answer].                                                *)
(***************************************************************************)
\* key.startswith(".")
StartsWithDot(key) == key # <<>> /\ key[1] = "."

\* _populate_index_list: the keys that do not start with ".", or the
\* exception raised.
_populate_index_list(get_response, keys) ==
    IF get_response.raised THEN [status |-> "ConnectionError"]
    ELSE IF ~(get_response.status_code = 200) THEN [status |-> "GetIndexListError"]
    ELSE [status |-> "ok", index_list |-> SelectSeq(keys, LAMBDA key : ~StartsWithDot(key))]

\* _put_index: "ok" or the exception raised
_put_index(index_put_response) ==
    IF index_put_response.raised THEN "ConnectionError"
    ELSE IF ~(index_put_response.status_code = 200) THEN "PutIndexError"
    ELSE "ok"

\* _post_parsed_get_response: "ok" or the exception raised
_post_parsed_get_response(post_response) ==
    IF post_response.raised THEN "ConnectionError"
    ELSE IF ~(post_response.status_code \in {200, 201}) THEN "PostDataError"
    ELSE "ok"

\* An upload whose second except clause is missing: an exception that is
\* none of the three errors leaves upload.
UploadExceptKnownErrorsOnly(exception, requests) ==
    IF exception \in {"PostDataError", "PutIndexError", "GetIndexListError"}
    THEN [status |-> "returned", value |-> FALSE, requests |-> requests]
    ELSE [status |-> "raised", value |-> FALSE, requests |-> requests]

\* The except clauses of upload: False for the three errors and for every
\* other exception.
UploadExcept(exception, requests) ==
    [status |-> "returned", value |-> FALSE, requests |-> requests]

\* upload(data): what it returns and the requests it issued.
upload(data, server) ==
    LET get_request == [method |-> "GET", index |-> <<"*">>, answer |-> server.get]
        index_list == _populate_index_list(server.get, server.keys)
        RECURSIVE loop(_, _, _)
        loop(i, k, requests) ==
            IF i > Len(data)
            THEN [status |-> "returned", value |-> TRUE, requests |-> requests]
            ELSE LET index == data[i].index
                     absent == index \notin Range(index_list.index_list)
                     put == [method |-> "PUT", index |-> index,
                             answer |-> server.answers[k]]
                     kp == IF absent THEN k + 1 ELSE k
                     post == [method |-> "POST", index |-> index,
                              answer |-> server.answers[kp]]
                     putted == IF absent THEN Append(requests, put) ELSE requests
                 IN  IF absent /\ _put_index(put.answer) # "ok"
                     THEN UploadExcept(_put_index(put.answer), putted)
                     ELSE IF _post_parsed_get_response(post.answer) # "ok"
                     THEN UploadExcept(_post_parsed_get_response(post.answer),
                                       Append(putted, post))
                     ELSE loop(i + 1, kp + 1, Append(putted, post))
    IN  IF index_list.status # "ok" THEN UploadExcept(index_list.status, <<get_request>>)
        ELSE loop(1, 1, <<get_request>>)

(***************************************************************************)
(* GNMIManager.set, and what the operations of a manager do to             *)
(* yang_keywords                                                           *)
(***************************************************************************)
\* set: the SetResponse of the device, or the GNMIException every
\* exception is turned into.
set(request, answer) ==
    IF answer.rpc # "ok" THEN [status |-> "GNMIException", cause |-> answer.rpc]
    ELSE [status |-> "ok", response |-> answer.response]

\* The generator of subscribe consumed to its end: the documents yielded
\* and how it ended.
RECURSIVE SubscribeAll(_, _, _, _)
SubscribeAll(s, m, u, docs) ==
    With(SubscribeResume(s, m, u), LAMBDA r :
        CASE r.status = "yield" ->
                With(Append(docs, r.doc), LAMBDA longer :
                        SubscribeAll(s, r.m, r.u, longer))
          [] r.status = "StopIteration" -> [status |-> "ok", docs |-> docs]
          [] OTHER -> [status |-> "GNMIException", docs |-> docs])

\* A lookup that enters an empty keyword set for a namespace not there, as
\* the subscript of a defaultdict does.
KeywordLookupSetDefault(keywordIndex, namespace) ==
    [ns \in DOMAIN keywordIndex \cup {namespace} |->
        IF ns \in DOMAIN keywordIndex THEN keywordIndex[ns] ELSE {}]

\* self.yang_keywords after self.yang_keywords[namespace]: yang_keywords is
\* the dict json.loads returned, and the subscript of a dict enters nothing.
KeywordLookup(keywordIndex, namespace) == keywordIndex

\* self.yang_keywords after the lookups of the namespaces, in order.
RECURSIVE KeywordLookups(_, _)
KeywordLookups(keywordIndex, namespaces) ==
    IF namespaces = <<>> THEN keywordIndex
    ELSE With(KeywordLookup(keywordIndex, Head(namespaces)), LAMBDA looked :
            KeywordLookups(looked, Tail(namespaces)))

\* self.yang_keywords after the get that ended as g: every update that get
\* reaches with a path looks its namespace up, the one that starts the
\* notification's paths. get reaches the updates it went through and, when
\* it raised, the one it raised in.
KeywordsAfterGet(resp, g, keywordIndex) ==
    LET start_yang_path(n, u) ==
            Concat([i \in 1..u |->
                      [j \in 1..Len(resp[n].update[i].path) |->
                          resp[n].update[i].path[j].name]])
        paths == Concat([n \in 1..Len(resp) |->
                           [u \in 1..Len(resp[n].update) |-> start_yang_path(n, u)]])
        reached == IF g.status = "ok" THEN Len(paths)
                   ELSE Len(Concat(g.walked)) + 1
        looked == SelectSeq(SubSeq(paths, 1, reached), LAMBDA p : p # <<>>)
    IN  KeywordLookups(keywordIndex,
                       [i \in 1..Len(looked) |-> SplitAll(looked[i][1], ":")[1]])

(***************************************************************************)
(* Specifications                                                          *)
(***************************************************************************)
\* The parts of the state a specification does not use stay at these values.
IdlePath  == path = <<>> /\ pathResult = [status |-> "idle"]
IdleValue == tv = Unset /\ decoded = [status |-> "idle"]
IdleGet   == response = <<>> /\ getResult = [status |-> "idle"]
IdleSub   == /\ stream = <<>> /\ cursor = <<1, 1>>
             /\ yielded = <<>> /\ subStatus = "idle"
IdleIndex == /\ esName = <<>> /\ esClock = <<>> /\ esLayout = [ascii |-> 0]
             /\ esIndex = [status |-> "idle"]
IdleSet   == setConfigs = <<>> /\ setRequest = [status |-> "idle"]
IdleConfig == /\ cfgModels = <<>> /\ cfgDevice = [version |-> "idle"]
              /\ cfgResult = [status |-> "idle"]
IdleUpload == /\ upData = <<>> /\ upServer = [keys |-> <<>>]
              /\ upResult = [status |-> "idle"]
IdleManager == calls = 0 /\ called = {}


(***************************************************************************)
(* The paths tried: every concatenation of at most MaxTokens tokens.       *)
(***************************************************************************)
MaxTokens == 4

Tokens ==
    { <<"/">>, <<"a">>, <<"b">>, <<"[">>,
      <<"[", "k", "=", "1", "]">>,
      <<"[", "k", "=", Quote, "1", Quote, "]">>,
      <<"[", "k", "=", "a", "/", "b", "]">>,
      <<"[", "k", "]">> }

RECURSIVE TokenSeqs(_)
TokenSeqs(n) ==
    IF n = 0 THEN {<<>>}
    ELSE LET shorter == TokenSeqs(n - 1)
         IN  shorter \cup {s \o t : s \in shorter, t \in Tokens}

Paths == TokenSeqs(MaxTokens)

InitPath == /\ path \in Paths
            /\ pathResult = [status |-> "pending"]
            /\ IdleValue /\ IdleGet /\ IdleSub /\ IdleIndex
            /\ IdleSet /\ IdleConfig /\ IdleUpload /\ IdleManager
            /\ yang_keywords = KeysFile

\* One call of create_gnmi_path on the path drawn.
CreateGnmiPath ==
    /\ pathResult.status = "pending"
    /\ pathResult' = create_gnmi_path(path)
    /\ UNCHANGED <<path, valueVars, yang_keywords, getVars, subVars, indexVars, setVars, configVars, uploadVars, managerVars>>

NextPath == CreateGnmiPath

SpecPath == InitPath /\ [][NextPath]_vars

(***************************************************************************)
(* The TypedValues tried                                                   *)
(***************************************************************************)
MaxLeafList == 2

Limbs == {0, 1, 42, 32767, 32768, 65535}

UInt(m) == [neg |-> FALSE, mag |-> m]

\* every unsigned value with limbs drawn from Limbs: 0, 42, 2**63 - 1,
\* 2**63 and 2**64 - 1 among them
UintValues == {UInt(<<a, b, c, d>>) : a \in Limbs, b \in Limbs, c \in Limbs, d \in Limbs}

\* signed values of the 64-bit range, -2**63 and 2**63 - 1 among them
IntValues ==
    {[neg |-> n, mag |-> <<a, b, b, c>>] :
        n \in BOOLEAN, a \in {0, 1, 32767}, b \in {0, 65535}, c \in {0, 42, 65535}}
    \cup {[neg |-> TRUE, mag |-> <<32768, 0, 0, 0>>]}

\* a JSON payload: a document json.loads parses, or bytes it rejects
JsonPayloads ==
    {[json |-> TRUE, doc |-> Scalar(<<"1">>)], [json |-> FALSE, doc |-> Scalar(<<>>)]}

\* The tags of the TypedValue oneof that value_encodings holds, with the
\* values tried for each.
ScalarValues ==
    {TypedValue("string_val", s) : s \in {<<>>, <<"a">>}}
    \cup {TypedValue("ascii_val", s) : s \in {<<>>, <<"a">>}}
    \cup {TypedValue("int_val", v) : v \in IntValues}
    \cup {TypedValue("uint_val", v) : v \in UintValues}
    \cup {TypedValue("bool_val", b) : b \in BOOLEAN}
    \cup {TypedValue("bytes_val", s) : s \in {<<>>, <<"a">>}}
    \cup {TypedValue("proto_bytes", s) : s \in {<<>>, <<"a">>}}
    \cup {TypedValue("float_val", [float |-> f]) : f \in {0, 1}}
    \cup {TypedValue("decimal_val", [digits |-> v, precision |-> 2]) :
            v \in {UInt(<<0, 0, 0, 42>>), [neg |-> TRUE, mag |-> <<0, 0, 0, 1>>]}}
    \cup {TypedValue(t, j) : t \in {"json_val", "json_ietf_val"}, j \in JsonPayloads}

\* A value with no field of the oneof set (WhichOneof gives None), and one
\* with a field value_encodings does not hold (any_val of the gNMI TypedValue).
UnknownValues == {Unset, TypedValue("any_val", <<"a">>)}

\* The elements tried in a leaf-list.
Elements ==
    {TypedValue("uint_val", UInt(m)) :
        m \in {<<0, 0, 0, 42>>, MaxSigned, <<32768, 0, 0, 0>>, <<65535, 65535, 65535, 65535>>}}
    \cup {TypedValue("string_val", <<"a">>)}
    \cup UnknownValues

RECURSIVE SeqsUpTo(_, _)
SeqsUpTo(S, n) ==
    IF n = 0 THEN {<<>>}
    ELSE LET shorter == SeqsUpTo(S, n - 1)
         IN  shorter \cup {Append(s, x) : s \in shorter, x \in S}

LeafLists == {TypedValue("leaflist_val", l) : l \in SeqsUpTo(Elements, MaxLeafList)}

TypedValues == ScalarValues \cup UnknownValues \cup LeafLists

InitValue == /\ tv \in TypedValues
             /\ decoded = [status |-> "pending"]
             /\ IdlePath /\ IdleGet /\ IdleSub /\ IdleIndex
             /\ IdleSet /\ IdleConfig /\ IdleUpload /\ IdleManager
             /\ yang_keywords = KeysFile

\* One call of get_value on the TypedValue drawn.
GetValue ==
    /\ decoded.status = "pending"
    /\ decoded' = get_value(tv)
    /\ UNCHANGED <<tv, pathVars, yang_keywords, getVars, subVars, indexVars, setVars, configVars, uploadVars, managerVars>>

NextValue == GetValue

SpecValue == InitValue /\ [][NextValue]_vars

(***************************************************************************)
(* The GetResponses tried: JSON documents of at most MaxNodes nodes, lists *)
(* of at most MaxItems elements, notifications of at most MaxUpdates       *)
(* updates.                                                                *)
(***************************************************************************)
MaxNodes == 5
MaxItems == 2
MaxUpdates == 2

Names == {<<"k">>, <<"x">>}

ScalarValues2 == {Scalar(<<"1">>), Scalar(<<"2">>)}

\* In what follows trees[a] is the set of the trees of exactly a nodes.
\* the sequences of fields with distinct names drawn from avail, of n nodes
\* together
RECURSIVE FieldSeqs(_, _, _)
FieldSeqs(trees, n, avail) ==
    IF n = 0 THEN {<<>>}
    ELSE UNION {UNION {{<<Field(nm, x)>> \o rest :
                          x \in trees[a], rest \in FieldSeqs(trees, n - a, avail \ {nm})} :
                       a \in 1..n} :
                nm \in avail}

\* the sequences of at most len list elements (scalars and dicts), of n
\* nodes together
RECURSIVE ItemSeqs(_, _, _)
ItemSeqs(trees, n, len) ==
    IF n = 0 THEN {<<>>}
    ELSE IF len = 0 THEN {}
    ELSE UNION {{<<x>> \o rest :
                   x \in {t \in trees[a] : t.kind # "list"},
                   rest \in ItemSeqs(trees, n - a, len - 1)} :
                a \in 1..n}

\* <<the trees of 1 node, ..., the trees of n nodes>> (no empty dict or list)
RECURSIVE TreeTable(_)
TreeTable(n) ==
    IF n = 1 THEN <<ScalarValues2>>
    ELSE LET trees == TreeTable(n - 1)
         IN  Append(trees,
                    {Dict(fs) : fs \in FieldSeqs(trees, n - 1, Names)}
                    \cup {List(xs) : xs \in ItemSeqs(trees, n - 1, MaxItems)})

AllTrees == TreeTable(MaxNodes)

Trees(n) == AllTrees[n]

JsonIetf(t) == TypedValue("json_ietf_val", [json |-> TRUE, doc |-> t])

\* The paths of the updates: one element, two elements with a quoted key,
\* a namespace the keys file does not hold, and no element at all.
PathA  == <<[name |-> <<"n", ":", "a">>, key |-> {}]>>
PathAB == <<[name |-> <<"n", ":", "a">>, key |-> {<<<<"p">>, <<Quote, "1", Quote>>>>}],
            [name |-> <<"b">>, key |-> {}]>>
PathM  == <<[name |-> <<"m", ":", "a">>, key |-> {}]>>

\* the path of update i of a sequence of updates: PathAB, PathA, PathAB, ...
PathAt(i) == IF i % 2 = 1 THEN PathAB ELSE PathA

\* the sequences of at most len updates, the first of them update i, with
\* JSON documents of at most n nodes together
RECURSIVE UpdateSeqs(_, _, _)
UpdateSeqs(n, len, i) ==
    IF len = 0 THEN {<<>>}
    ELSE {<<>>} \cup
         UNION {{<<[path |-> PathAt(i), val |-> JsonIetf(t)]>> \o rest :
                   t \in Trees(a), rest \in UpdateSeqs(n - a, len - 1, i + 1)} :
                a \in 1..n}

XLeaf == Dict(<<Field(<<"x">>, Scalar(<<"1">>))>>)

\* updates the walk is never reached for: a namespace the keys file does
\* not hold, a path with no element, bytes that are no JSON, a value that
\* does not carry JSON, a value with no field set
OddUpdate(i) ==
    CASE i = 1 -> [path |-> PathM, val |-> JsonIetf(XLeaf)]
      [] i = 2 -> [path |-> <<>>, val |-> JsonIetf(XLeaf)]
      [] i = 3 -> [path |-> PathA,
                   val |-> TypedValue("json_val", [json |-> FALSE, doc |-> Scalar(<<>>)])]
      [] i = 4 -> [path |-> PathA, val |-> TypedValue("string_val", <<"a">>)]
      [] OTHER -> [path |-> PathA, val |-> Unset]

OddUpdates == 1..5

\* one notification whose updates all carry JSON documents: one update of
\* path PathA with a document of at most MaxNodes nodes, or at most
\* MaxUpdates updates with documents of at most MaxNodes - 1 nodes together
JsonResponses ==
    {<<[update |-> <<[path |-> PathA, val |-> JsonIetf(t)]>>]>> :
        t \in UNION {Trees(a) : a \in 1..MaxNodes}}
    \cup {<<[update |-> us]>> : us \in UpdateSeqs(MaxNodes - 1, MaxUpdates, 1)}

\* two notifications of at most one update each, of at most two nodes
TwoNotifications ==
    {<<[update |-> a], [update |-> b]>> : a, b \in UpdateSeqs(2, 1, 1)}

InitGet == /\ \/ response \in JsonResponses
              \/ response \in TwoNotifications
              \/ response = <<>>
              \/ \E i \in OddUpdates : response = <<[update |-> <<OddUpdate(i)>>]>>
              \/ \E i \in OddUpdates :
                    response = <<[update |-> <<[path |-> PathA, val |-> JsonIetf(XLeaf)],
                                               OddUpdate(i)>>]>>
           /\ getResult = [status |-> "pending"]
           /\ yang_keywords = KeysFile
           /\ IdlePath /\ IdleValue /\ IdleSub /\ IdleIndex
           /\ IdleSet /\ IdleConfig /\ IdleUpload /\ IdleManager

\* One call of get, the device answering with the response drawn.
Get ==
    /\ getResult.status = "pending"
    /\ getResult' = get(response, yang_keywords)
    /\ UNCHANGED <<response, yang_keywords, pathVars, valueVars, subVars, indexVars, setVars, configVars, uploadVars, managerVars>>

NextGet == Get

SpecGet == InitGet /\ [][NextGet]_vars

(***************************************************************************)
(* The streams subscribed to: at most MaxMessages messages, each a         *)
(* sync_response or a notification of at most two updates.                 *)
(***************************************************************************)
MaxMessages == 3

Prefix == [origin |-> <<"o">>,
           elem |-> <<[name |-> <<"a">>, key |-> {<<<<"p">>, <<"1">>>>}]>>]

PathX == <<[name |-> <<"x">>, key |-> {}]>>
PathK == <<[name |-> <<"k">>, key |-> {<<<<"q">>, <<"2">>>>}]>>

GoodX == [path |-> PathX, val |-> TypedValue("string_val", <<"a">>)]
GoodK == [path |-> PathK, val |-> JsonIetf(XLeaf)]
NoValue == [path |-> PathX, val |-> Unset]
NoJson  == [path |-> PathK,
            val |-> TypedValue("json_val", [json |-> FALSE, doc |-> Scalar(<<>>)])]

\* the notification of message i of a stream, by its kind
SubUpdates(kind) ==
    CASE kind = 2 -> <<GoodX>>
      [] kind = 3 -> <<GoodX, GoodK>>
      [] kind = 4 -> <<NoValue>>
      [] kind = 5 -> <<GoodK, NoJson>>
      [] kind = 6 -> <<NoValue, GoodX>>
      [] OTHER -> <<>>

SubscribeResponse(kind, i) ==
    [sync_response |-> (kind = 1),
     update |-> [prefix |-> IF kind = 1 THEN [origin |-> <<>>, elem |-> <<>>] ELSE Prefix,
                 timestamp |-> IF kind = 1 THEN 0 ELSE i,
                 update |-> SubUpdates(kind)]]

MessageKinds == 1..7

KindSeqs == UNION {[1..n -> MessageKinds] : n \in 0..MaxMessages}

InitSub == /\ \E ks \in KindSeqs :
                 stream = [i \in 1..Len(ks) |-> SubscribeResponse(ks[i], i)]
           /\ cursor = <<1, 1>>
           /\ yielded = <<>>
           /\ subStatus = "running"
           /\ yang_keywords = KeysFile
           /\ IdlePath /\ IdleValue /\ IdleGet /\ IdleIndex
           /\ IdleSet /\ IdleConfig /\ IdleUpload /\ IdleManager

\* One next() of the consumer on the generator subscribe returned: it runs
\* to its next yield, to the end of the stream, or to the GNMIException.
\* A generator that returned or raised yields nothing more.
SubscribeNext ==
    /\ subStatus = "running"
    /\ LET r == SubscribeResume(stream, cursor[1], cursor[2])
       IN  /\ cursor' = <<r.m, r.u>>
           /\ yielded' = IF r.status = "yield" THEN Append(yielded, r.doc) ELSE yielded
           /\ subStatus' = CASE r.status = "yield" -> "running"
                             [] r.status = "StopIteration" -> "done"
                             [] OTHER -> "GNMIException"
    /\ UNCHANGED <<stream, yang_keywords, pathVars, valueVars, getVars, indexVars, setVars, configVars, uploadVars, managerVars>>

NextSub == SubscribeNext

SpecSub == InitSub /\ [][NextSub]_vars

(***************************************************************************)
(* The names tried for yang_path_to_es_index: at most MaxRuns runs of one  *)
(* character, short ones and ones long enough to reach the limit.          *)
(***************************************************************************)
MaxRuns == 2

IndexChars ==
    {"a", "A", "/", "-", ":", "[", "]", Quote, "U+00C9", "U+00E9", "U+5B57", "U+1F600"}

RunLengths == {1, 75, 121}

Run(c, n) == [i \in 1..n |-> c]

RECURSIVE IndexNames(_)
IndexNames(n) ==
    IF n = 0 THEN {<<>>}
    ELSE LET shorter == IndexNames(n - 1)
         IN  shorter \cup {s \o Run(c, len) : s \in shorter, c \in IndexChars,
                                              len \in RunLengths}

\* Two readings of the clock, the second one the same day or the day after.
Clocks ==
    { <<[year |-> 2019, month |-> 3, day |-> 7], [year |-> 2019, month |-> 3, day |-> 7]>>,
      <<[year |-> 2019, month |-> 3, day |-> 9], [year |-> 2019, month |-> 3, day |-> 10]>>,
      <<[year |-> 2019, month |-> 12, day |-> 31], [year |-> 2020, month |-> 1, day |-> 1]>> }

InitIndex == /\ esName \in IndexNames(MaxRuns)
             /\ esClock \in Clocks
             /\ esLayout \in StrLayouts
             /\ esIndex = [status |-> "pending"]
             /\ yang_keywords = KeysFile
             /\ IdlePath /\ IdleValue /\ IdleGet /\ IdleSub
             /\ IdleSet /\ IdleConfig /\ IdleUpload /\ IdleManager

\* One call of yang_path_to_es_index on the name drawn.
YangPathToEsIndex ==
    /\ esIndex.status = "pending"
    /\ esIndex' = [status |-> "ok",
                   index |-> yang_path_to_es_index(esName, esClock[1], esClock[2],
                                                   esLayout)]
    /\ UNCHANGED <<esName, esClock, esLayout, yang_keywords, pathVars, valueVars,
                   getVars, subVars, setVars, configVars, uploadVars, managerVars>>

NextIndex == YangPathToEsIndex

SpecIndex == InitIndex /\ [][NextIndex]_vars

(***************************************************************************)
(* The configs tried for ParsedSetRequest: at most MaxConfigs items with   *)
(* distinct paths, well-formed ones and ones create_gnmi_path rejects.     *)
(***************************************************************************)
MaxConfigs == 2

ConfigPaths ==
    { <<"n", ":", "a", "/", "b">>,
      <<"a">>,
      <<"a", "[", "k", "=", "1", "]", "/", "b">>,
      <<"a", "[", "k", "]">>,
      <<>> }

ConfigValues == Trees(1) \cup Trees(2) \cup {Scalar(<<"a", Quote>>), Dict(<<>>)}

RECURSIVE Configs(_)
Configs(n) ==
    IF n = 0 THEN {<<>>}
    ELSE LET shorter == Configs(n - 1)
         IN  shorter \cup
             {Append(c, <<p, v>>) :
                 c \in {d \in shorter : Len(d) = n - 1},
                 p \in ConfigPaths, v \in ConfigValues}

DistinctPaths(c) == \A i \in 1..Len(c) : \A j \in 1..Len(c) : c[i][1] = c[j][1] => i = j

InitSet == /\ setConfigs \in {c \in Configs(MaxConfigs) : DistinctPaths(c)}
           /\ setRequest = [status |-> "pending"]
           /\ yang_keywords = KeysFile
           /\ IdlePath /\ IdleValue /\ IdleGet /\ IdleSub
           /\ IdleIndex /\ IdleConfig /\ IdleUpload /\ IdleManager

\* One construction of a ParsedSetRequest from the configs drawn.
NewParsedSetRequest ==
    /\ setRequest.status = "pending"
    /\ setRequest' = ParsedSetRequest(setConfigs)
    /\ UNCHANGED <<setConfigs, yang_keywords, pathVars, valueVars, getVars, subVars,
                   indexVars, configVars, uploadVars, managerVars>>

NextSet == NewParsedSetRequest

SpecSet == InitSet /\ [][NextSet]_vars

(***************************************************************************)
(* The calls of get_config tried: at most MaxModels models, and a device   *)
(* that answers each Get well, with an error, or with a response that      *)
(* cannot be parsed.                                                       *)
(***************************************************************************)
MaxModels == 2

ConfigModels == {<<"n", ":", "a">>, <<"b">>, <<>>}

\* The full configuration of the device.
FullConfig ==
    Dict(<<Field(<<"n", ":", "a">>, XLeaf), Field(<<"b">>, Scalar(<<"1">>))>>)

JsonText(p, t, text) ==
    [rpc |-> "ok",
     notification |-> <<[timestamp |-> t,
                         update |-> <<[path |-> p,
                                       val |-> TypedValue("json_ietf_val", text)]>>]>>]

\* What the device answers to the i-th Get, asked for model, by kind.
ConfigAnswer(kind, model, i) ==
    LET p == IF model = <<>> THEN <<>> ELSE <<[name |-> model, key |-> {}]>>
    IN  CASE kind = 1 -> JsonText(p, i, json_dumps(IF model = <<>> THEN FullConfig
                                                       ELSE FullConfig.items[i].value))
          [] kind = 2 -> [rpc |-> "RpcError", notification |-> <<>>]
          [] kind = 3 -> [rpc |-> "ok", notification |-> <<>>]
          [] kind = 4 -> JsonText(p, i, <<"{">>)
          [] OTHER -> JsonText(p, i, json_dumps(List(<<Scalar(<<"1">>)>>)))

AnswerKinds == 1..5

Devices(config_models) ==
    LET gets == IF config_models = <<>> THEN 1 ELSE Len(config_models)
        asked(i) == IF config_models = <<>> THEN <<>> ELSE config_models[i]
    IN  {[version |-> m[1], hostname |-> m[2],
          answers |-> [i \in 1..gets |-> ConfigAnswer(kinds[i], asked(i), i)]] :
            m \in {<<"ok", "ok">>, <<"RpcError", "ok">>, <<"ok", "RpcError">>,
                   <<"ok", "KeyError">>},
            kinds \in [1..gets -> AnswerKinds]}

InitConfig == /\ cfgModels \in UNION {[1..k -> ConfigModels] : k \in 0..MaxModels}
              /\ cfgDevice \in Devices(cfgModels)
              /\ cfgResult = [status |-> "pending"]
              /\ yang_keywords = KeysFile
              /\ IdlePath /\ IdleValue /\ IdleGet /\ IdleSub
              /\ IdleIndex /\ IdleSet /\ IdleUpload /\ IdleManager

\* One call of get_config for the models drawn, on the device drawn.
GetConfig ==
    /\ cfgResult.status = "pending"
    /\ cfgResult' = get_config(cfgModels, cfgDevice)
    /\ UNCHANGED <<cfgModels, cfgDevice, yang_keywords, pathVars, valueVars, getVars,
                   subVars, indexVars, setVars, uploadVars, managerVars>>

NextConfig == GetConfig

SpecConfig == InitConfig /\ [][NextConfig]_vars

(***************************************************************************)
(* The uploads tried: at most MaxDocs documents, and a server that answers *)
(* every request with one of a few status codes or not at all.             *)
(***************************************************************************)
MaxDocs == 2

IndexI    == <<"i">>
IndexDotI == <<".", "i">>

UploadData ==
    UNION {[1..n -> {[index |-> IndexI], [index |-> IndexDotI]}] : n \in 0..MaxDocs}

Answers ==
    {[raised |-> FALSE, status_code |-> c] : c \in {200, 201, 400}}
    \cup {[raised |-> TRUE, status_code |-> 0]}

Servers(data) ==
    {[get |-> g, keys |-> ks, answers |-> as] :
        g \in {[raised |-> FALSE, status_code |-> 200],
               [raised |-> FALSE, status_code |-> 400],
               [raised |-> TRUE, status_code |-> 0]},
        ks \in {<<>>, <<IndexI>>, <<IndexDotI, IndexI>>},
        as \in [1..(2 * Len(data)) -> Answers]}

InitUpload == /\ upData \in UploadData
              /\ upServer \in Servers(upData)
              /\ upResult = [status |-> "pending"]
              /\ yang_keywords = KeysFile
              /\ IdlePath /\ IdleValue /\ IdleGet /\ IdleSub
              /\ IdleIndex /\ IdleSet /\ IdleConfig /\ IdleManager

\* One call of upload with the data drawn, on the server drawn.
Upload ==
    /\ upResult.status = "pending"
    /\ upResult' = upload(upData, upServer)
    /\ UNCHANGED <<upData, upServer, yang_keywords, pathVars, valueVars, getVars,
                   subVars, indexVars, setVars, configVars, managerVars>>

NextUpload == Upload

SpecUpload == InitUpload /\ [][NextUpload]_vars

(***************************************************************************)
(* A manager in use: at most MaxCalls calls of get, get_config, subscribe  *)
(* and set, one after the other, each ending well or with GNMIException.   *)
(***************************************************************************)
MaxCalls == 4

ManagerResponses ==
    {<<>>, <<[update |-> <<[path |-> PathA, val |-> JsonIetf(XLeaf)]>>]>>}
    \cup {<<[update |-> <<OddUpdate(i)>>]>> : i \in OddUpdates}
    \cup {<<[update |-> <<[path |-> PathA, val |-> JsonIetf(XLeaf)], OddUpdate(i)>>]>> :
            i \in OddUpdates}

ManagerConfigModels == {<<>>, << <<"n", ":", "a">> >>, << <<"n", ":", "a">>, <<"b">> >>}

ManagerStreams ==
    {[i \in 1..Len(ks) |-> SubscribeResponse(ks[i], i)] :
        ks \in {k \in KindSeqs : Len(k) <= 2}}

SetAnswers ==
    {[rpc |-> "ok", response |-> [timestamp |-> 1]],
     [rpc |-> "RpcError", response |-> [timestamp |-> 0]]}

SetRequests ==
    LET built == ParsedSetRequest(<< <<<<"n", ":", "a", "/", "b">>, XLeaf>> >>)
    IN  {[delete |-> built.delete_request.delete, update |-> <<>>],
         [delete |-> <<>>, update |-> built.update_request.update]}

InitManager == /\ yang_keywords = KeysFile
               /\ calls = 0
               /\ called = {}
               /\ IdlePath /\ IdleValue /\ IdleGet /\ IdleSub
               /\ IdleIndex /\ IdleSet /\ IdleConfig /\ IdleUpload

\* The call op ended with status.
Called(op, status) ==
    /\ calls < MaxCalls
    /\ calls' = calls + 1
    /\ called' = called \cup {[op |-> op, status |-> status]}
    /\ UNCHANGED <<pathVars, valueVars, getVars, subVars, indexVars, setVars,
                   configVars, uploadVars>>

\* One call of get, the device answering with some response.
ManagerGet ==
    \E resp \in ManagerResponses :
        \E g \in {get(resp, yang_keywords)} :
            /\ Called("get", g.status)
            /\ yang_keywords' = KeywordsAfterGet(resp, g, yang_keywords)

\* One call of get_config.
ManagerGetConfig ==
    \E config_models \in ManagerConfigModels :
        \E device \in Devices(config_models) :
            /\ Called("get_config", get_config(config_models, device).status)
            /\ UNCHANGED yang_keywords

\* One call of subscribe, the generator it returns consumed to its end.
ManagerSubscribe ==
    \E s \in ManagerStreams :
        /\ Called("subscribe", SubscribeAll(s, 1, 1, <<>>).status)
        /\ UNCHANGED yang_keywords

\* One call of set.
ManagerSet ==
    \E request \in SetRequests : \E answer \in SetAnswers :
        /\ Called("set", set(request, answer).status)
        /\ UNCHANGED yang_keywords

NextManager == ManagerGet \/ ManagerGetConfig \/ ManagerSubscribe \/ ManagerSet

SpecManager == InitManager /\ [][NextManager]_vars

(***************************************************************************)
(* Claims about create_gnmi_path                                           *)
(***************************************************************************)
\* The bracketed groups of p when its brackets are balanced and not nested.
RECURSIVE BalancedFrom(_, _, _)
BalancedFrom(s, i, depth) ==
    IF i > Len(s) THEN depth = 0
    ELSE CASE s[i] = "[" -> depth = 0 /\ BalancedFrom(s, i + 1, 1)
           [] s[i] = "]" -> depth = 1 /\ BalancedFrom(s, i + 1, 0)
           [] OTHER      -> BalancedFrom(s, i + 1, depth)

Groups(p) == FindAllKeys(p, 1)

\* Well-formed: balanced, non-nested brackets, every predicate a key=value.
WellFormed(p) ==
    /\ BalancedFrom(p, 1, 0)
    /\ \A i \in 1..Len(Groups(p)) : "=" \in Range(Groups(p)[i])

NoInnerSlash(p) == \A i \in 1..Len(Groups(p)) : "/" \notin Range(Groups(p)[i])

\* The segments of s between the "/" that stand outside brackets.
RECURSIVE OuterSegments(_, _, _, _)
OuterSegments(s, start, i, depth) ==
    IF i > Len(s) THEN <<SubSeq(s, start, Len(s))>>
    ELSE CASE s[i] = "/" /\ depth = 0 ->
                <<SubSeq(s, start, i - 1)>> \o OuterSegments(s, i + 1, i + 1, 0)
           [] s[i] = "[" -> OuterSegments(s, start, i + 1, 1)
           [] s[i] = "]" -> OuterSegments(s, start, i + 1, 0)
           [] OTHER      -> OuterSegments(s, start, i + 1, depth)

\* At least one segment, at most one leading and at most one trailing "/".
SingleEdgeSlashes(p) ==
    /\ Strip(p, "/") # <<>>
    /\ Len(p) - Len(LStrip(p, "/")) <= 1
    /\ Len(p) - Len(RStrip(p, "/")) <= 1

PathCalled == pathResult.status \notin {"idle", "pending"}

C7_EmptyPathZeroElements ==
    (PathCalled /\ path = <<>>) =>
        (pathResult.status = "ok" /\ pathResult.elem = <<>>)

\* A value wrapped in quote characters.
Quoted(v) == Len(v) >= 2 /\ v[1] \in {Quote, "'"} /\ v[Len(v)] = v[1]

\* C8 (as stated): every key value of every PathElem built by
\* create_gnmi_path has its surrounding quote characters stripped.
C8_KeyValuesUnquoted ==
    (PathCalled /\ pathResult.status = "ok") =>
        \A i \in 1..Len(pathResult.elem) :
            \A k \in DictKeys(pathResult.elem[i].key) :
                ~Quoted(DictGet(pathResult.elem[i].key, k))

(***************************************************************************)
(* Claims about _walk_yang_data and get                                    *)
(*                                                                         *)
(* Leaves(fields, ...) lists the terminal values of a document in document *)
(* order, each with what the claims say of it: its path, its value, the    *)
(* key leaves of its own and its enclosing mappings (nearest: the value of *)
(* the closest one per name; allowed: all of them, with the keys of the    *)
(* update's path).                                                         *)
(***************************************************************************)
GetCalled == getResult.status \notin {"idle", "pending"}

KeyLeaves(fields, keywords) ==
    {<<fields[i].name, fields[i].value.v>> :
        i \in {j \in 1..Len(fields) :
                 fields[j].value.kind = "scalar" /\ fields[j].name \in keywords}}

RECURSIVE Leaves(_, _, _, _, _)
Leaves(fields, prefix, nearest, allowed, keywords) ==
    LET own  == KeyLeaves(fields, keywords)
        near == {kv \in nearest : kv[1] \notin DictKeys(own)} \cup own
        all  == allowed \cup own
        leaf(p, x) == [path |-> p, value |-> x, nearest |-> near, allowed |-> all]
        RECURSIVE items(_, _)
        items(p, xs) ==
            IF xs = <<>> THEN <<>>
            ELSE (IF Head(xs).kind = "dict"
                  THEN Leaves(Head(xs).items, p, near, all, keywords)
                  ELSE <<leaf(p, Head(xs))>>) \o items(p, Tail(xs))
        RECURSIVE each(_)
        each(fs) ==
            IF fs = <<>> THEN <<>>
            ELSE LET f == Head(fs)
                     p == Append(prefix, f.name)
                     here == CASE f.value.kind = "dict" ->
                                    Leaves(f.value.items, p, near, all, keywords)
                               [] f.value.kind = "list" -> items(p, f.value.items)
                               [] OTHER -> IF f.name \in keywords THEN <<>>
                                           ELSE <<leaf(p, f.value)>>
                 IN  here \o each(Tail(fs))
    IN  each(fields)

\* The terminal values of the JSON document of update u, in document
\* order, kw being the keywords of its namespace.
UpdateLeaves(u, kw) ==
    LET doc == getattr(u.val, WhichOneof(u.val)).doc
        pk  == PathKeys({}, u.path)
        RECURSIVE tops(_)
        tops(ds) == IF ds = <<>> THEN <<>>
                    ELSE Leaves(Head(ds).items, <<>>, {}, pk, kw) \o tops(Tail(ds))
    IN  IF doc.kind = "list" THEN tops(doc.items) ELSE tops(<<doc>>)

\* The updates whose walk ran: <<n, u>> for update u of notification n.
Walked ==
    {nu \in (1..Len(getResult.walked)) \X (1..MaxUpdates) :
        nu[2] <= Len(getResult.walked[nu[1]])}

WalkedRecords(nu) == getResult.walked[nu[1]][nu[2]]
WalkedUpdate(nu)  == response[nu[1]].update[nu[2]]

\* The keywords the walk ran with: those of the namespace that starts the
\* first path of the notification.
WalkedKeywords(nu) ==
    yang_keywords[SplitAll(response[nu[1]].update[1].path[1].name, ":")[1]]

\* C1 (as stated): every record of a leaf carries the key leaves of its own
\* mapping and of the mappings above it, whatever the order of the fields.
C1_KeysReachEveryLeaf ==
    GetCalled =>
        \A nu \in Walked :
            LET recs == WalkedRecords(nu)
                ref  == UpdateLeaves(WalkedUpdate(nu), WalkedKeywords(nu))
            IN  \A i \in 1..Len(recs) :
                    i <= Len(ref) => ref[i].nearest \subseteq recs[i].keys

\* C2 (as stated): the keys of a record come from the update's path and
\* from the key leaves of its own and its enclosing mappings only, never
\* from another element of a list or another child container. (Stated of
\* the first update of a notification, whose start_yang_keys start empty.)
C2_SiblingIsolation ==
    GetCalled =>
        \A nu \in Walked :
            nu[2] = 1 =>
                LET recs == WalkedRecords(nu)
                    ref  == UpdateLeaves(WalkedUpdate(nu), WalkedKeywords(nu))
                IN  \A i \in 1..Len(recs) :
                        i <= Len(ref) => recs[i].keys \subseteq ref[i].allowed

\* The number of terminal values of a tree that are no key leaves.
RECURSIVE Terminals(_, _, _)
Terminals(name, t, keywords) ==
    LET RECURSIVE sum(_, _)
        sum(xs, i) ==
            IF i > Len(xs) THEN 0
            ELSE sum(xs, i + 1) +
                 (IF t.kind = "dict" THEN Terminals(xs[i].name, xs[i].value, keywords)
                  ELSE IF xs[i].kind = "dict" THEN Terminals(<<>>, xs[i], keywords)
                  ELSE 1)
    IN  IF t.kind = "scalar" THEN (IF name \in keywords THEN 0 ELSE 1)
        ELSE sum(t.items, 1)

\* C3: the walk of an update's document appends exactly one record per
\* terminal value that is no key leaf (none for a key leaf), in document
\* order, with the slash-joined field names from the top-level field down
\* as yang_path and the leaf's value as value.
C3_OneRecordPerTerminal ==
    GetCalled =>
        \A nu \in Walked :
            LET recs == WalkedRecords(nu)
                u    == WalkedUpdate(nu)
                ref  == UpdateLeaves(u, WalkedKeywords(nu))
            IN  /\ Len(recs) = Terminals(<<>>, getattr(u.val, WhichOneof(u.val)).doc, WalkedKeywords(nu))
                /\ Len(recs) = Len(ref)
                /\ \A i \in 1..Len(recs) :
                      /\ recs[i].yang_path = Join(ref[i].path, <<"/">>)
                      /\ recs[i].value = ref[i].value

\* C3 witness: {"x": {"k": "1", "x": {"x": "1"}}} under keyword k gave the
\* single record keys {k: 1}, yang_path x/x/x, value 1.
C3_Witness ==
    /\ GetCalled /\ getResult.status = "ok"
    /\ response = <<[update |-> <<[path |-> PathA,
            val |-> JsonIetf(Dict(<<Field(<<"x">>,
                       Dict(<<Field(<<"k">>, Scalar(<<"1">>)),
                              Field(<<"x">>, XLeaf)>>))>>))]>>]>>
    /\ getResult.walked = << << <<[keys |-> {<<<<"k">>, <<"1">>>>},
                                   yang_path |-> <<"x", "/", "x", "/", "x">>,
                                   value |-> Scalar(<<"1">>)]>> >> >>

\* The documents update u of notification n appended to rc: one per record
\* of sub_yang_info at that point.
RECURSIVE SumLens(_, _)
SumLens(ws, u) == IF u = 0 THEN 0 ELSE Len(ws[u]) + SumLens(ws, u - 1)

RECURSIVE Emitted(_, _)
Emitted(ws, u) == IF u = 0 THEN 0 ELSE SumLens(ws, u) + Emitted(ws, u - 1)

RECURSIVE RcOffset(_, _)
RcOffset(n, u) ==
    IF n = 1 THEN Emitted(getResult.walked[1], u - 1)
    ELSE RcOffset(n - 1, Len(getResult.walked[n - 1]) + 1)
         + Emitted(getResult.walked[n], u - 1)

OwnPath(u) == Join([i \in 1..Len(u.path) |-> u.path[i].name], <<"/">>)

\* C4 (as stated): the yang_path of each document made from the records of
\* an update's own walk is the update's own path joined with the record's
\* sub-path.
C4_OwnPathOnly ==
    (GetCalled /\ getResult.status = "ok") =>
        \A nu \in Walked :
            LET recs  == WalkedRecords(nu)
                first == RcOffset(nu[1], nu[2])
                          + SumLens(getResult.walked[nu[1]], nu[2] - 1)
            IN  \A i \in 1..Len(recs) :
                    getResult.rc[first + i].yang_path =
                        OwnPath(WalkedUpdate(nu)) \o <<"/">> \o recs[i].yang_path

(***************************************************************************)
(* Claims about subscribe                                                  *)
(***************************************************************************)
SubscribeEnded == subStatus \in {"done", "GNMIException"}

\* The updates subscribe visits, <<m, u>> for update u of message m, in the
\* order of the stream.
StreamUpdates ==
    LET RECURSIVE from(_, _)
        from(m, u) ==
            IF m > Len(stream) THEN <<>>
            ELSE IF stream[m].sync_response \/ u > Len(stream[m].update.update)
            THEN from(m + 1, 1)
            ELSE <<<<m, u>>>> \o from(m, u + 1)
    IN  from(1, 1)

Decodes(mu) ==
    get_value(stream[mu[1]].update.update[mu[2]].val).status = "ok"

DocumentOf(mu) ==
    SubscribeDocument(stream[mu[1]], stream[mu[1]].update.update[mu[2]]).doc

\* How many updates come before the first one whose value does not decode
\* (all of them when every value decodes).
DecodedBeforeFailure ==
    LET RECURSIVE count(_)
        count(i) == IF i > Len(StreamUpdates) \/ ~Decodes(StreamUpdates[i]) THEN 0
                    ELSE 1 + count(i + 1)
    IN  count(1)

\* C5 (as stated): a failure aborts its own message only: once the
\* subscription is over, every document of a message whose updates all
\* decode has been yielded, also when an earlier message failed.
C5_LaterMessagesStillYielded ==
    SubscribeEnded =>
        \A m \in 1..Len(stream) :
            (\A i \in 1..Len(StreamUpdates) :
                 StreamUpdates[i][1] = m => Decodes(StreamUpdates[i]))
            => \A i \in 1..Len(StreamUpdates) :
                   StreamUpdates[i][1] = m =>
                       \E j \in 1..Len(yielded) : yielded[j] = DocumentOf(StreamUpdates[i])

\* C5 (amended): a failure ends the subscription. What has been yielded is
\* at every moment the documents of the first updates of the stream, in
\* order, none of them at or after the first update that does not decode;
\* the subscription ends with GNMIException exactly when there is such an
\* update, and then everything before it has been yielded and nothing else.
C5_FailureEndsSubscription ==
    subStatus # "idle" =>
        /\ Len(yielded) <= DecodedBeforeFailure
        /\ \A j \in 1..Len(yielded) : yielded[j] = DocumentOf(StreamUpdates[j])
        /\ SubscribeEnded => Len(yielded) = DecodedBeforeFailure
        /\ subStatus = "GNMIException" => DecodedBeforeFailure < Len(StreamUpdates)
        /\ subStatus = "done" => DecodedBeforeFailure = Len(StreamUpdates)

\* C5 witness: the subscription has ended with GNMIException after a
\* document was yielded, and a message after the failing one, whose updates
\* all decode, has no document yielded.
C5_Witness ==
    /\ subStatus = "GNMIException"
    /\ yielded # <<>>
    /\ \E i \in 1..Len(StreamUpdates) :
          /\ StreamUpdates[i][1] > cursor[1]
          /\ Decodes(StreamUpdates[i])
          /\ \A j \in 1..Len(yielded) : yielded[j] # DocumentOf(StreamUpdates[i])

(***************************************************************************)
(* Claims about get_value                                                  *)
(***************************************************************************)
ValueCalled == decoded.status \notin {"idle", "pending"}

\* v <= 2**63 - 1: the top bit of the top limb is clear
FitsSigned(m) == m[1] < 2 ^ 15

DigitOf(c) == CHOOSE d \in 0..9 : Digits[d + 1] = c

\* The magnitude a decimal string reads as.
RECURSIVE StrToMag(_)
StrToMag(s) ==
    IF s = <<>> THEN Zero64
    ELSE LET m  == StrToMag(SubSeq(s, 1, Len(s) - 1))
             x4 == m[4] * 10 + DigitOf(s[Len(s)])
             x3 == m[3] * 10 + x4 \div Base
             x2 == m[2] * 10 + x3 \div Base
             x1 == m[1] * 10 + x2 \div Base
         IN  <<x1, x2 % Base, x3 % Base, x4 % Base>>

\* s is the decimal string of the magnitude m: digits only, no leading zero.
IsDecimalOf(s, m) ==
    /\ s # <<>>
    /\ \A i \in 1..Len(s) : s[i] \in Range(Digits)
    /\ (Len(s) > 1 => s[1] # "0")
    /\ StrToMag(s) = m

\* The overflow policy on one unsigned value v decoded as out, of type type.
UintPolicy(v, type, out) ==
    IF FitsSigned(v.mag) THEN type = "int" /\ out = v
    ELSE type = "str" /\ IsDecimalOf(out, v.mag)

\* C9: get_value on an unsigned integer v returns the integer v when
\* v <= 2**63 - 1 and the decimal string of v when v >= 2**63, and the same
\* for each unsigned element of a leaf-list.
C9_UintOverflowPolicy ==
    ValueCalled =>
        /\ tv.tag = "uint_val" =>
              (decoded.status = "ok" /\ UintPolicy(tv.uint_val, decoded.type, decoded.val))
        /\ (tv.tag = "leaflist_val" /\ decoded.status = "ok") =>
              /\ Len(decoded.val) = Len(tv.leaflist_val)
              /\ \A i \in 1..Len(tv.leaflist_val) :
                    tv.leaflist_val[i].tag = "uint_val" =>
                        LET out == decoded.val[i]
                        IN  UintPolicy(tv.leaflist_val[i].uint_val, out.type, out[out.type])

\* C9 witness: 2**63 was decoded to the string "9223372036854775808".
C9_Witness ==
    /\ ValueCalled /\ tv.tag = "uint_val" /\ tv.uint_val.mag = <<32768, 0, 0, 0>>
    /\ decoded.type = "str"
    /\ decoded.val = <<"9", "2", "2", "3", "3", "7", "2", "0", "3", "6",
                       "8", "5", "4", "7", "7", "5", "8", "0", "8">>

\* The tags of the value union, each with the native type it decodes to.
UnionTypes ==
    [string_val    |-> {"str"},
     ascii_val     |-> {"str"},
     int_val       |-> {"int"},
     uint_val      |-> {"int", "str"},
     bool_val      |-> {"bool"},
     bytes_val     |-> {"bytes"},
     proto_bytes   |-> {"bytes"},
     float_val     |-> {"float"},
     decimal_val   |-> {"int"},
     leaflist_val  |-> {"list"},
     json_val      |-> {"json"},
     json_ietf_val |-> {"json"}]

Undecodable(v) ==
    \/ v.tag \notin DOMAIN UnionTypes
    \/ v.tag \in {"json_val", "json_ietf_val"} /\ ~getattr(v, v.tag).json

\* C10: get_value decodes a value of every tag of the union to a native
\* value of that tag's type, and raises on a value (or a leaf-list element)
\* whose tag is unset or unrecognized: never a default, never a skipped one.
C10_DecodeTotalOrError ==
    ValueCalled =>
        /\ tv.tag \notin DOMAIN UnionTypes => decoded.status = "KeyError"
        /\ tv.tag \in DOMAIN UnionTypes =>
              IF tv.tag = "leaflist_val"
              THEN IF \E i \in 1..Len(tv.leaflist_val) : Undecodable(tv.leaflist_val[i])
                   THEN decoded.status = "KeyError"
                   ELSE /\ decoded.status = "ok" /\ decoded.type = "list"
                        /\ Len(decoded.val) = Len(tv.leaflist_val)
                        /\ \A i \in 1..Len(tv.leaflist_val) :
                              decoded.val[i].type \in UnionTypes[tv.leaflist_val[i].tag]
              ELSE IF Undecodable(tv)
                   THEN decoded.status = "JSONDecodeError"
                   ELSE decoded.status = "ok" /\ decoded.type \in UnionTypes[tv.tag]

\* C10 witness: decoding a value with no tag set ended in a KeyError.
C10_Witness == ValueCalled /\ tv.tag = "NONE" /\ decoded.status = "KeyError"

(***************************************************************************)
(* Claims about yang_path_to_es_index                                      *)
(***************************************************************************)
IndexCalled == esIndex.status = "ok"

Suffix(now) == <<"-", "g", "n", "m", "i", "-">> \o get_date(now)

EndsWith(s, t) == Len(s) >= Len(t) /\ SubSeq(s, Len(s) - Len(t) + 1, Len(s)) = t

\* C11: the identifier yang_path_to_es_index returns is never longer than
\* 255 bytes once encoded, whatever the characters of the path, and it ends
\* with the whole suffix "-gnmi-<YYYY.MM.DD>".
C11_AtMost255EncodedBytes ==
    IndexCalled =>
        /\ EncodedLen(esIndex.index) <= IndexLimit
        /\ EndsWith(esIndex.index, Suffix(esClock[2]))
        /\ Len(get_date(esClock[2])) = 10

\* The truncation loop cut a path portion that had characters down to "".
CutToEmpty ==
    /\ IndexOf(esName) # <<>>
    /\ TruncateIndex(IndexOf(esName), getsizeof(get_date(esClock[1]), esLayout),
                     esLayout) = <<>>

\* C12: when the truncation cuts the path portion down to the empty string,
\* the call reports IndexDerivationOverflow and returns no identifier made
\* of the date suffix only.
C12_EmptyPathPortionReported ==
    (esIndex.status # "pending" /\ CutToEmpty) =>
        esIndex.status = "IndexDerivationOverflow"

(***************************************************************************)
(* Claims about the keyword lookup and the documents of get                *)
(***************************************************************************)
\* The root namespace of an update: the text before ":" in its first path element.
RootNamespace(update) == SplitAll(update.path[1].name, ":")[1]

\* The updates of the response, notification after notification.
ResponseUpdates == Concat([i \in 1..Len(response) |-> response[i].update])

\* C13: get on a response with an update whose root namespace has no entry
\* in the keyword index raises an error and returns no document: the update
\* is never flattened as if its keyword set were empty or another one.
C13_MissingNamespaceRaises ==
    (/\ GetCalled
     /\ \E i \in 1..Len(ResponseUpdates) :
           /\ ResponseUpdates[i].path # <<>>
           /\ RootNamespace(ResponseUpdates[i]) \notin DOMAIN yang_keywords)
    => (getResult.status = "GNMIException" /\ getResult.rc = <<>>)

\* The records the flattener produced over all updates of the notifications ws.
RECURSIVE TotalRecords(_)
TotalRecords(ws) ==
    IF ws = <<>> THEN 0 ELSE SumLens(Head(ws), Len(Head(ws))) + TotalRecords(Tail(ws))

\* C16: get returns exactly one document per record the flattener produces:
\* the documents returned are as many as the records of all updates of all
\* notifications, each update counted with the records of its own value,
\* so that no record is turned into a document twice.
C16_OneDocumentPerRecord ==
    (GetCalled /\ getResult.status = "ok") =>
        Len(getResult.rc) = TotalRecords(getResult.walked)

(***************************************************************************)
(* Claims about the order of the documents of subscribe                    *)
(***************************************************************************)
\* The updates of the messages that are no sync responses, all messages.
RECURSIVE UpdatesInStream(_)
UpdatesInStream(s) ==
    IF s = <<>> THEN 0
    ELSE (IF Head(s).sync_response THEN 0 ELSE Len(Head(s).update.update))
         + UpdatesInStream(Tail(s))

\* Document j is the one of update mu: the timestamp of mu's message, the
\* path of mu under the prefix of its message, and as its value the whole
\* decoded value of mu, a JSON document as one value.
IsDocumentOf(doc, mu) ==
    LET message == stream[mu[1]]
        update  == message.update.update[mu[2]]
        value   == get_value(update.val)
    IN  /\ ~message.sync_response
        /\ doc.timestamp.num = message.update.timestamp
        /\ doc.yang_path = message.update.prefix.origin \o <<":">>
                \o Join([i \in 1..Len(message.update.prefix.elem) |->
                            message.update.prefix.elem[i].name], <<"/">>)
                \o <<"/">> \o OwnPath(update)
        /\ doc.value = PyValue(value.type, value.val)

\* C17: subscribe yields one document per update of each message that is no
\* sync response, unflattened, in the order the messages arrive and in the
\* order of the updates inside a message, all documents of a message before
\* any of the next, and none for a sync response; a subscription that ends
\* without an error has yielded one document for every such update.
C17_OneDocumentPerUpdateInOrder ==
    subStatus # "idle" =>
        /\ Len(yielded) <= UpdatesInStream(stream)
        /\ \A j \in 1..Len(yielded) : IsDocumentOf(yielded[j], StreamUpdates[j])
        /\ \A j \in 1..Len(yielded) : \A k \in 1..Len(yielded) :
              j < k => \/ StreamUpdates[j][1] < StreamUpdates[k][1]
                       \/ /\ StreamUpdates[j][1] = StreamUpdates[k][1]
                          /\ StreamUpdates[j][2] < StreamUpdates[k][2]
        /\ subStatus = "done" => Len(yielded) = UpdatesInStream(stream)

\* C17 witness: a stream with a sync response and two messages with updates
\* has ended without an error; three documents were yielded, two of them of
\* one message, one with a JSON document as its value.
C17_Witness ==
    /\ subStatus = "done"
    /\ Len(yielded) = 3
    /\ \E m \in 1..Len(stream) : stream[m].sync_response
    /\ \E j \in 1..2 : /\ yielded[j].timestamp = yielded[j + 1].timestamp
                       /\ yielded[j + 1].value = PyValue("json", XLeaf)

(***************************************************************************)
(* Claims about ParsedSetRequest                                           *)
(***************************************************************************)
SetBuilt == setRequest.status = "ok"

\* C14: a ParsedSetRequest built from a mapping with n path keys holds n
\* delete paths, n update entries and n replace entries; the i-th delete
\* path, update path and replace path are the structured path of the i-th
\* key, and the i-th update value and replace value are the same JSON
\* encoding of the i-th config.
C14_ThreeRequestsOfNEntries ==
    SetBuilt =>
        LET n == Len(setConfigs)
            delete  == setRequest.delete_request.delete
            update  == setRequest.update_request.update
            replace == setRequest.replace_request.replace
        IN  /\ Len(delete) = n /\ Len(update) = n /\ Len(replace) = n
            /\ \A i \in 1..n :
                  /\ delete[i].elem = create_gnmi_path(setConfigs[i][1]).elem
                  /\ update[i].path = delete[i]
                  /\ replace[i].path = delete[i]
                  /\ update[i].val = replace[i].val
                  /\ WhichOneof(update[i].val) = "json_ietf_val"
                  /\ update[i].val.json_ietf_val = json_dumps(setConfigs[i][2])

\* C14 witness: the request built from {"n:a/b": {"x": "1"}, "a": "1"} has
\* two entries of each kind, the first update with the value {"x": "1"}.
C14_Witness ==
    /\ SetBuilt
    /\ setConfigs = << <<<<"n", ":", "a", "/", "b">>, XLeaf>>, <<<<"a">>, Scalar(<<"1">>)>> >>
    /\ Len(setRequest.delete_request.delete) = 2
    /\ setRequest.update_request.update[1].val.json_ietf_val
         = <<"{", Quote, "x", Quote, ":", " ", Quote, "1", Quote, "}">>
    /\ setRequest.replace_request.replace[2].path.elem
         = <<[name |-> <<"a">>, key |-> {}]>>

(***************************************************************************)
(* Claims about get_config                                                 *)
(***************************************************************************)
\* C18: get_config called with k >= 1 config models, every Get answered
\* well, issues one Get per model and returns k entries, the i-th one the
\* entry of the i-th model.
C18_OneEntryPerModel ==
    (cfgResult.status = "ok" /\ cfgModels # <<>>) =>
        /\ cfgResult.gets = cfgModels
        /\ Len(cfgResult.responses) = Len(cfgModels)
        /\ \A i \in 1..Len(cfgModels) : cfgResult.responses[i].model = cfgModels[i]

(***************************************************************************)
(* Claims about upload                                                     *)
(***************************************************************************)
UploadCalled == upResult.status \notin {"idle", "pending"}

\* The request was answered, and with a status its method accepts.
Accepted(request) ==
    /\ ~request.answer.raised
    /\ request.answer.status_code \in
          (IF request.method = "POST" THEN {200, 201} ELSE {200})

\* The indices the server listed, less the hidden ones.
ListedIndices == {k \in Range(upServer.keys) : ~StartsWithDot(k)}

Requests(method) == SelectSeq(upResult.requests, LAMBDA r : r.method = method)

\* C19: upload never raises. It returns True exactly when the index list
\* was fetched with 200, a PUT was answered 200 for every document whose
\* index was not listed, and every document was POSTed and answered 200 or
\* 201. A request that fails is the last request issued, and upload then
\* returns False.
C19_UploadTrueIffAllAccepted ==
    UploadCalled =>
        /\ upResult.status = "returned"
        /\ upResult.value =
              (/\ \A i \in 1..Len(upResult.requests) : Accepted(upResult.requests[i])
               /\ Len(Requests("GET")) = 1
               /\ Len(Requests("POST")) = Len(upData)
               /\ \A i \in 1..Len(upData) :
                     Requests("POST")[i].index = upData[i].index
               /\ \A i \in 1..Len(upData) :
                     upData[i].index \notin ListedIndices =>
                        \E j \in 1..Len(Requests("PUT")) :
                           Requests("PUT")[j].index = upData[i].index)
        /\ \A i \in 1..Len(upResult.requests) :
              ~Accepted(upResult.requests[i]) =>
                 (i = Len(upResult.requests) /\ upResult.value = FALSE)

\* C19 witness: the PUT of the first document's index got no answer at all
\* (the request raised); upload returned False and issued nothing after it,
\* though a second document was still to be uploaded.
C19_Witness ==
    /\ UploadCalled
    /\ upResult.status = "returned" /\ upResult.value = FALSE
    /\ Len(upData) = 2
    /\ Len(upResult.requests) = 2
    /\ upResult.requests[2].method = "PUT"
    /\ upResult.requests[2].answer.raised

\* C20: within one upload a PUT is issued at most once for an index name,
\* also when several documents share an index that was not listed, and
\* every POST to an index that was not listed comes after the PUT of it.
C20_OnePutPerIndex ==
    UploadCalled =>
        /\ \A i \in 1..Len(upResult.requests) : \A j \in 1..Len(upResult.requests) :
              (/\ upResult.requests[i].method = "PUT"
               /\ upResult.requests[j].method = "PUT"
               /\ upResult.requests[i].index = upResult.requests[j].index) => i = j
        /\ \A j \in 1..Len(upResult.requests) :
              (/\ upResult.requests[j].method = "POST"
               /\ upResult.requests[j].index \notin ListedIndices)
              => \E i \in 1..(j - 1) :
                    /\ upResult.requests[i].method = "PUT"
                    /\ upResult.requests[i].index = upResult.requests[j].index

(***************************************************************************)
(* Claims about yang_keywords                                              *)
(***************************************************************************)
\* C15: no call of get, get_config, subscribe or set changes yang_keywords,
\* whether the call ends well or with an error.
C15_KeywordsNeverChange == [][yang_keywords' = yang_keywords]_vars

\* C15 witness: each of the four operations has been called, get both with
\* a good end and with a GNMIException, and yang_keywords is what the keys
\* file held.
C15_Witness ==
    /\ {c.op : c \in called} = {"get", "get_config", "subscribe", "set"}
    /\ [op |-> "get", status |-> "GNMIException"] \in called
    /\ \E c \in called : c.status = "ok"
    /\ yang_keywords = KeysFile

====
